---- MODULE Spec2Model ----
(***************************************************************************)
(* Tile Creator: the project reducer (undo/redo history) and the tiled     *)
(* SVG export pipeline (clip, deduplicate, join), modelled from            *)
(* src/state/projectState.ts and features/export/exportSvg.ts.             *)
(*                                                                         *)
(* Numbers.  Coordinates are integers counted in `unit`-ths of one         *)
(* drawing unit (a variable fixed by Init), stroke widths in StrokeDen-ths.*)
(* Every tolerance test of the source is kept as a test against 10^-6,     *)
(* carried out exactly on these integers.                                  *)
(***************************************************************************)
EXTENDS Integers, Sequences, FiniteSets, TLC

VARIABLES
  state,       \* reducer: the ProjectState
  lastAction,  \* reducer: type of the last dispatched action
  wasChanged,     \* reducer: the last dispatched action returned a new state
  hadFuture,   \* reducer: history.future was non-empty when it was dispatched
  marks,       \* reducer: states left behind by the undos not yet redone
  redoRun,     \* reducer: number of consecutive matched redos just performed
  unit,        \* export: number of coordinate steps in one drawing unit
  pc,          \* export: "input" before the function under test ran, "done" after
  project,     \* export: the project and options given to buildTiledSvg
  cell,        \* export: column and row of the cell a single clip is made against
  frags,       \* export: the clipped fragments (renderedFragments)
  deduped,     \* export: dedupedFragments
  optimized,   \* export: optimizedFragments, the elements written to the SVG
  call,        \* geometry: the function called and its arguments
  result,      \* geometry: what the call returned
  app          \* App component: its state, what it last rendered, exports under way

rvars == <<state, lastAction, wasChanged, hadFuture, marks, redoRun>>

evars == <<unit, pc, project, cell, frags, deduped, optimized>>

gvars == <<call, result>>

vars == <<state, lastAction, wasChanged, hadFuture, marks, redoRun,
          unit, pc, project, cell, frags, deduped, optimized, call, result, app>>

----------------------------------------------------------------------------
(* Generic helpers                                                          *)

Pt(x, y) == [x |-> x, y |-> y]

Abs(n) == IF n < 0 THEN -n ELSE n

Min(a, b) == IF a <= b THEN a ELSE b

Max(a, b) == IF a >= b THEN a ELSE b

Range(s) == {s[i] : i \in 1..Len(s)}

RECURSIVE SeqSum(_)
SeqSum(s) == IF s = <<>> THEN 0 ELSE Head(s) + SeqSum(Tail(s))

----------------------------------------------------------------------------
(* utils/math.ts                                                            *)

subtract(a, b) == Pt(a.x - b.x, a.y - b.y)

dot(a, b) == a.x * b.x + a.y * b.y

----------------------------------------------------------------------------
(* state/projectState.ts                                                    *)

\* stroke widths are counted in StrokeDen-ths
StrokeDen == 2 * 2

\* the absent (undefined) stroke width
Undefined == 0 - 1

DEFAULT_TILE_SIZE == 120

FIXED_STROKE_WIDTH == 2 * StrokeDen

MIN_STROKE_WIDTH == StrokeDen \div 2

MAX_STROKE_WIDTH == 4 * StrokeDen

STROKE_WIDTH_STEP == StrokeDen \div 2

\* Math.round(q): nearest integer, halves towards +infinity, of num/den
RoundDiv(num, den) == (2 * num + den) \div (2 * den)

normalizeStrokeWidth(value) ==
  IF value = Undefined
    THEN FIXED_STROKE_WIDTH
    ELSE LET clamped == Min(MAX_STROKE_WIDTH, Max(MIN_STROKE_WIDTH, value))
         IN  RoundDiv(clamped, STROKE_WIDTH_STEP) * STROKE_WIDTH_STEP

getPrimitiveStrokeWidth(primitive) == normalizeStrokeWidth(primitive.strokeWidth)

withNormalizedStrokeWidth(primitive) ==
  [primitive EXCEPT !.strokeWidth = normalizeStrokeWidth(primitive.strokeWidth)]

initialProjectState ==
  [ tile       |-> [shape |-> "square", size |-> DEFAULT_TILE_SIZE],
    primitives |-> <<>>,
    history    |-> [past |-> <<>>, future |-> <<>>] ]

HistoryEntry(primitives, description) ==
  [primitives |-> primitives, description |-> description]

\* withHistory that forgets to empty the redo stack
withHistory_KeepsFuture(st, description) ==
  [st EXCEPT !.history =
     [ past   |-> Append(st.history.past, HistoryEntry(st.primitives, description)),
       future |-> st.history.future ]]

withHistory(st, description) ==
  [st EXCEPT !.history =
     [ past   |-> Append(st.history.past, HistoryEntry(st.primitives, description)),
       future |-> <<>> ]]

describeShapeCount(action, count) ==
  action \o " " \o ToString(count) \o " " \o (IF count = 1 THEN "shape" ELSE "shapes")

\* setTileShape that changes the shape and keeps the drawing
setTileShape_KeepsPrimitives(st, shape) ==
  IF st.tile.shape = shape
    THEN st
    ELSE LET next == withHistory(st, "Change tile shape")
         IN  [next EXCEPT !.tile = [next.tile EXCEPT !.shape = shape]]

setTileShape(st, shape) ==
  IF st.tile.shape = shape
    THEN st
    ELSE LET next == withHistory(st, "Change tile shape")
         IN  [next EXCEPT !.tile = [next.tile EXCEPT !.shape = shape],
                          !.primitives = <<>>]

addPrimitive(st, primitive) ==
  LET normalized == withNormalizedStrokeWidth(primitive)
      next == withHistory(st, IF normalized.kind = "line" THEN "Add line" ELSE "Add circle")
  IN  [next EXCEPT !.primitives = Append(st.primitives, normalized)]

\* addPrimitives that records one history step per added primitive
addPrimitives_StepPerShape(st, primitives) ==
  LET RECURSIVE AddEach(_, _)
      AddEach(current, k) ==
        IF k > Len(primitives) THEN current
        ELSE AddEach(addPrimitive(current, primitives[k]), k + 1)
  IN  AddEach(st, 1)

addPrimitives(st, primitives) ==
  IF Len(primitives) = 0
    THEN st
    ELSE LET normalizedPrimitives == [i \in 1..Len(primitives) |-> withNormalizedStrokeWidth(primitives[i])]
             next == withHistory(st, describeShapeCount("Add", Len(primitives)))
         IN  [next EXCEPT !.primitives = st.primitives \o normalizedPrimitives]

\* ids is the Set built from the action's id array
erasePrimitives(st, ids) ==
  IF ids = {}
    THEN st
    ELSE LET removedCount ==
               Cardinality({i \in 1..Len(st.primitives) : st.primitives[i].id \in ids})
         IN  IF removedCount = 0
               THEN st
               ELSE [withHistory(st, describeShapeCount("Erase", removedCount))
                       EXCEPT !.primitives =
                         SelectSeq(st.primitives, LAMBDA p : p.id \notin ids)]

erasePrimitive(st, id) == erasePrimitives(st, {id})

samePoint(a, b) == a.x = b.x /\ a.y = b.y

samePrimitive(a, b) ==
  IF \/ a.kind # b.kind
     \/ a.id # b.id
     \/ a.color # b.color
     \/ getPrimitiveStrokeWidth(a) # getPrimitiveStrokeWidth(b)
    THEN FALSE
    ELSE IF a.kind = "line" /\ b.kind = "line"
      THEN samePoint(a.a, b.a) /\ samePoint(a.b, b.b)
      ELSE IF a.kind = "circle" /\ b.kind = "circle"
        THEN samePoint(a.center, b.center) /\ a.radius = b.radius
        ELSE FALSE

\* new Map(primitives.map(p => [p.id, normalized p])).get(id): the last entry wins
HasUpdate(primitives, id) == \E i \in 1..Len(primitives) : primitives[i].id = id

UpdateFor(primitives, id) ==
  LET hits == {i \in 1..Len(primitives) : primitives[i].id = id}
  IN  withNormalizedStrokeWidth(primitives[CHOOSE i \in hits : \A j \in hits : j <= i])

updatePrimitives(st, primitives) ==
  IF Len(primitives) = 0
    THEN st
    ELSE LET isChanged(p) ==
               /\ HasUpdate(primitives, p.id)
               /\ ~samePrimitive(p, UpdateFor(primitives, p.id))
             updatedPrimitives ==
               [i \in 1..Len(st.primitives) |->
                  IF isChanged(st.primitives[i])
                    THEN UpdateFor(primitives, st.primitives[i].id)
                    ELSE st.primitives[i]]
             changedCount ==
               Cardinality({i \in 1..Len(st.primitives) : isChanged(st.primitives[i])})
         IN  IF changedCount = 0
               THEN st
               ELSE [withHistory(st, describeShapeCount("Edit", changedCount))
                       EXCEPT !.primitives = updatedPrimitives]

updatePrimitive(st, primitive) == updatePrimitives(st, <<primitive>>)

recolorPrimitives(st, ids, color) ==
  IF ids = {}
    THEN st
    ELSE LET isChanged(p) == p.id \in ids /\ p.color # color
             updatedPrimitives ==
               [i \in 1..Len(st.primitives) |->
                  IF isChanged(st.primitives[i])
                    THEN [st.primitives[i] EXCEPT !.color = color]
                    ELSE st.primitives[i]]
             changedCount ==
               Cardinality({i \in 1..Len(st.primitives) : isChanged(st.primitives[i])})
         IN  IF changedCount = 0
               THEN st
               ELSE [withHistory(st, describeShapeCount("Recolor", changedCount))
                       EXCEPT !.primitives = updatedPrimitives]

restrokePrimitives(st, ids, strokeWidth) ==
  IF ids = {}
    THEN st
    ELSE LET normalizedStrokeWidth == normalizeStrokeWidth(strokeWidth)
             isChanged(p) ==
               p.id \in ids /\ getPrimitiveStrokeWidth(p) # normalizedStrokeWidth
             updatedPrimitives ==
               [i \in 1..Len(st.primitives) |->
                  IF isChanged(st.primitives[i])
                    THEN [st.primitives[i] EXCEPT !.strokeWidth = normalizedStrokeWidth]
                    ELSE st.primitives[i]]
             changedCount ==
               Cardinality({i \in 1..Len(st.primitives) : isChanged(st.primitives[i])})
         IN  IF changedCount = 0
               THEN st
               ELSE [withHistory(st, describeShapeCount("Change stroke", changedCount))
                       EXCEPT !.primitives = updatedPrimitives]

\* distance(p, q) < 1 in place of distance(p, q) <= 1
DistanceLeOne_Strict(p, q) == dot(subtract(p, q), subtract(p, q)) < 1

\* distance(p, q) <= 1, decided on the squares
DistanceLeOne(p, q) == dot(subtract(p, q), subtract(p, q)) <= 1

\* distanceToSegment(point, a, b) > 1, decided exactly: with t = n/denom
\* clamped to [0, 1] the projected point is a + ab * n / denom
DistanceToSegmentGtOne(point, a, b) ==
  LET ab == subtract(b, a)
      ap == subtract(point, a)
      denom == dot(ab, ab)
  IN  IF denom <= 0
        THEN ~DistanceLeOne(point, a)
        ELSE LET n == Min(denom, Max(0, dot(ap, ab)))
                 ex == ap.x * denom - ab.x * n
                 ey == ap.y * denom - ab.y * n
             IN  ex * ex + ey * ey > denom * denom

FindIndex(primitives, id) ==
  LET hits == {i \in 1..Len(primitives) : primitives[i].id = id}
  IN  IF hits = {} THEN 0 ELSE CHOOSE i \in hits : \A j \in hits : i <= j

\* splitLine that gives both halves the first id
splitLine_SameId(st, id, point, firstId, secondId) ==
  LET index == FindIndex(st.primitives, id)
  IN  IF index = 0
        THEN st
        ELSE LET candidate == st.primitives[index]
             IN  IF candidate.kind # "line"
                   THEN st
                   ELSE IF DistanceToSegmentGtOne(point, candidate.a, candidate.b)
                     THEN st
                     ELSE IF DistanceLeOne(point, candidate.a) \/ DistanceLeOne(point, candidate.b)
                       THEN st
                       ELSE LET first == [id |-> firstId, kind |-> "line",
                                          a |-> candidate.a, b |-> point,
                                          color |-> candidate.color,
                                          strokeWidth |-> getPrimitiveStrokeWidth(candidate)]
                                second == [id |-> firstId, kind |-> "line",
                                           a |-> point, b |-> candidate.b,
                                           color |-> candidate.color,
                                           strokeWidth |-> getPrimitiveStrokeWidth(candidate)]
                            IN  [withHistory(st, "Split line") EXCEPT !.primitives =
                                   SubSeq(st.primitives, 1, index - 1)
                                     \o <<first, second>>
                                     \o SubSeq(st.primitives, index + 1, Len(st.primitives))]

splitLine(st, id, point, firstId, secondId) ==
  LET index == FindIndex(st.primitives, id)
  IN  IF index = 0
        THEN st
        ELSE LET candidate == st.primitives[index]
             IN  IF candidate.kind # "line"
                   THEN st
                   ELSE IF DistanceToSegmentGtOne(point, candidate.a, candidate.b)
                     THEN st
                     ELSE IF DistanceLeOne(point, candidate.a) \/ DistanceLeOne(point, candidate.b)
                       THEN st
                       ELSE LET first == [id |-> firstId, kind |-> "line",
                                          a |-> candidate.a, b |-> point,
                                          color |-> candidate.color,
                                          strokeWidth |-> getPrimitiveStrokeWidth(candidate)]
                                second == [id |-> secondId, kind |-> "line",
                                           a |-> point, b |-> candidate.b,
                                           color |-> candidate.color,
                                           strokeWidth |-> getPrimitiveStrokeWidth(candidate)]
                            IN  [withHistory(st, "Split line") EXCEPT !.primitives =
                                   SubSeq(st.primitives, 1, index - 1)
                                     \o <<first, second>>
                                     \o SubSeq(st.primitives, index + 1, Len(st.primitives))]

\* undo that restores the oldest snapshot instead of the newest one
undo_RestoresOldest(st) ==
  IF Len(st.history.past) = 0
    THEN st
    ELSE LET n == Len(st.history.past)
             previous == st.history.past[1]
             past == SubSeq(st.history.past, 1, n - 1)
             future == Append(st.history.future,
                              HistoryEntry(st.primitives, previous.description))
         IN  [st EXCEPT !.primitives = previous.primitives,
                        !.history = [past |-> past, future |-> future]]

undo(st) ==
  IF Len(st.history.past) = 0
    THEN st
    ELSE LET n == Len(st.history.past)
             previous == st.history.past[n]
             past == SubSeq(st.history.past, 1, n - 1)
             future == Append(st.history.future,
                              HistoryEntry(st.primitives, previous.description))
         IN  [st EXCEPT !.primitives = previous.primitives,
                        !.history = [past |-> past, future |-> future]]

\* redo that takes the oldest undone snapshot instead of the latest one
redo_TakesOldest(st) ==
  IF Len(st.history.future) = 0
    THEN st
    ELSE LET n == Len(st.history.future)
             next == st.history.future[1]
             future == SubSeq(st.history.future, 2, n)
             past == Append(st.history.past,
                            HistoryEntry(st.primitives, next.description))
         IN  [st EXCEPT !.primitives = next.primitives,
                        !.history = [past |-> past, future |-> future]]

redo(st) ==
  IF Len(st.history.future) = 0
    THEN st
    ELSE LET n == Len(st.history.future)
             next == st.history.future[n]
             future == SubSeq(st.history.future, 1, n - 1)
             past == Append(st.history.past,
                            HistoryEntry(st.primitives, next.description))
         IN  [st EXCEPT !.primitives = next.primitives,
                        !.history = [past |-> past, future |-> future]]

clear(st) ==
  [st EXCEPT !.primitives = <<>>, !.history = [past |-> <<>>, future |-> <<>>]]

----------------------------------------------------------------------------
(* Reducer: inputs and dispatch                                             *)

\* bound on the number of recorded history entries (past and future together)
MaxHistory == 2

Line(id, a, b, color, strokeWidth) ==
  [id |-> id, kind |-> "line", a |-> a, b |-> b, color |-> color, strokeWidth |-> strokeWidth]

Circle(id, center, radius, color, strokeWidth) ==
  [id |-> id, kind |-> "circle", center |-> center, radius |-> radius,
   color |-> color, strokeWidth |-> strokeWidth]

\* a minor counter-clockwise arc as the arc tool stores it
StoredArc(id, center, start, end, color, strokeWidth) ==
  [id |-> id, kind |-> "arc", center |-> center, start |-> start, end |-> end,
   clockwise |-> FALSE, largeArc |-> FALSE, color |-> color, strokeWidth |-> strokeWidth]

\* primitives the editor hands to add-primitive / add-primitives
NewPrimitives ==
  { Line("p1", Pt(0, 0), Pt(10, 0), "#111", Undefined),
    Line("p2", Pt(0, 0), Pt(0, 10), "#222", 3 * StrokeDen),
    Circle("p3", Pt(0, 0), 5, "#111", Undefined),
    StoredArc("p4", Pt(0, 0), Pt(5, 0), Pt(0, 5), "#111", Undefined) }

\* replacement values the editor hands to update-primitive(s)
EditedPrimitives ==
  { Line("p1", Pt(0, 0), Pt(10, 10), "#111", Undefined),
    Circle("p3", Pt(0, 0), 8, "#111", Undefined),
    StoredArc("p4", Pt(0, 0), Pt(5, 0), Pt(0, 5), "#111", Undefined) }

IdSets == { {"p2", "p3"}, {"p1", "p9"} }

Colors == {"#111", "#222"}

StrokeWidths == {Undefined, 3 * StrokeDen}

SplitPoints == {Pt(5, 0), Pt(0, 0), Pt(5, 1), Pt(1, 0)}

TileShapes == {"square", "hex-pointy"}

HistorySize(st) == Len(st.history.past) + Len(st.history.future)

Ids(st) == {st.primitives[i].id : i \in 1..Len(st.primitives)}

Recording ==
  { "add-primitive", "add-primitives", "erase-primitive", "erase-primitives",
    "update-primitive", "update-primitives", "recolor-primitives",
    "restroke-primitives", "split-line", "set-tile-shape" }

\* One dispatch of the reducer: state' = projectReducer(state, action).
\* marks and redoRun are history variables: an undo that changes the state
\* pushes the state it leaves; a redo pops it; anything else that changes the
\* state starts a new run.
Dispatch(type, next) ==
  /\ HistorySize(next) <= MaxHistory
  /\ UNCHANGED evars
  /\ UNCHANGED gvars
  /\ UNCHANGED app
  /\ state' = next
  /\ lastAction' = type
  /\ wasChanged' = (next # state)
  /\ hadFuture' = (Len(state.history.future) > 0)
  /\ marks' = IF next = state THEN marks
              ELSE IF type = "undo" THEN Append(marks, state)
              ELSE IF type = "redo" /\ marks # <<>> THEN SubSeq(marks, 1, Len(marks) - 1)
              ELSE <<>>
  /\ redoRun' = IF next = state THEN redoRun
                ELSE IF type = "redo" /\ marks # <<>> THEN redoRun + 1
                ELSE 0

AddPrimitive ==
  \E p \in NewPrimitives :
    /\ p.id \notin Ids(state)
    /\ Dispatch("add-primitive", addPrimitive(state, p))

AddPrimitives ==
  \E p \in NewPrimitives, q \in NewPrimitives :
    /\ p.id \notin Ids(state) /\ q.id \notin Ids(state) /\ p.kind = "line" /\ q.kind = "circle"
    /\ Dispatch("add-primitives", addPrimitives(state, <<p, q>>))

ErasePrimitive ==
  \E id \in {"p1"} : Dispatch("erase-primitive", erasePrimitive(state, id))

ErasePrimitives ==
  \E ids \in IdSets : Dispatch("erase-primitives", erasePrimitives(state, ids))

UpdatePrimitive ==
  \E p \in EditedPrimitives : Dispatch("update-primitive", updatePrimitive(state, p))

UpdatePrimitives ==
  \E p \in EditedPrimitives, q \in EditedPrimitives :
    /\ p.id # q.id
    /\ Dispatch("update-primitives", updatePrimitives(state, <<p, q>>))

RecolorPrimitives ==
  \E ids \in IdSets, color \in {"#222"} :
    Dispatch("recolor-primitives", recolorPrimitives(state, ids, color))

RestrokePrimitives ==
  \E ids \in IdSets, w \in StrokeWidths \ {Undefined} :
    Dispatch("restroke-primitives", restrokePrimitives(state, ids, w))

SplitLine ==
  \E id \in {"p1", "p3"}, point \in SplitPoints :
    /\ {"p1a", "p1b"} \cap Ids(state) = {}
    /\ Dispatch("split-line", splitLine(state, id, point, "p1a", "p1b"))

SetTileShape ==
  \E shape \in TileShapes : Dispatch("set-tile-shape", setTileShape(state, shape))

Undo == Dispatch("undo", undo(state))

Redo == Dispatch("redo", redo(state))

Clear == Dispatch("clear", clear(state))

ReducerInit ==
  /\ state = initialProjectState
  /\ lastAction = "init"
  /\ wasChanged = FALSE
  /\ hadFuture = FALSE
  /\ marks = <<>>
  /\ redoRun = 0

ReducerNext ==
  \/ AddPrimitive
  \/ AddPrimitives
  \/ ErasePrimitive
  \/ ErasePrimitives
  \/ UpdatePrimitive
  \/ UpdatePrimitives
  \/ RecolorPrimitives
  \/ RestrokePrimitives
  \/ SplitLine
  \/ SetTileShape
  \/ Undo
  \/ Redo
  \/ Clear

NoProject == [primitives |-> <<>>, columns |-> 0, rows |-> 0, size |-> 0]

NoCell == [col |-> 0, row |-> 0]

ExportIdle ==
  /\ unit = 1
  /\ pc = "idle"
  /\ project = NoProject
  /\ cell = NoCell
  /\ frags = <<>>
  /\ deduped = <<>>
  /\ optimized = <<>>

NoCall == [name |-> "none"]

GeometryIdle ==
  /\ call = NoCall
  /\ result = <<>>

\* App as first rendered: useState('') for message, useState(false) for
\* isExportingGif; no export was started
InitialApp ==
  [isExportingGif |-> FALSE,
   message |-> "",
   rendered |-> [isExportingGif |-> FALSE, message |-> ""],
   running |-> 0,
   started |-> 0,
   downloads |-> 0]

AppIdle == app = InitialApp

Init == ReducerInit /\ ExportIdle /\ GeometryIdle /\ AppIdle

Next == ReducerNext

Spec == Init /\ [][Next]_vars

----------------------------------------------------------------------------
(* Claims about the reducer (checked under Spec)                            *)

HistoryView(st) == <<st.primitives, st.history.past, st.history.future>>

\* C8: for every history-recording action that turns S into S', undo(S') has
\* exactly the primitive collection of S (same primitives, same order).
C8_UndoRestoresPrevious ==
  [][ (lastAction' \in Recording /\ state' # state)
        => undo(state').primitives = state.primitives ]_vars

\* a recording action has just changed a non-empty collection with two
\* snapshots on the undo stack
C8_Witness ==
  /\ lastAction \in Recording
  /\ wasChanged
  /\ Len(state.history.past) = 2
  /\ state.history.past[1].primitives # state.history.past[2].primitives
  /\ state.history.past[2].primitives # <<>>

\* C9: every redo that answers an undo restores the primitives, history.past
\* and history.future of the state that undo left; so k undos followed by k
\* redos end in the state before the first undo, replayed in reverse order.
C9_RedoReplaysUndos ==
  [][ (lastAction' = "redo" /\ state' # state /\ marks # <<>>)
        => HistoryView(state') = HistoryView(marks[Len(marks)]) ]_vars

\* two undos have been answered by two redos
C9_Witness ==
  /\ lastAction = "redo"
  /\ redoRun = 2
  /\ marks = <<>>
  /\ Len(state.history.past) = 2

\* C10: a history-recording action empties history.future, and redo then
\* returns the state unchanged.
C10_NewActionClearsRedo ==
  [][ (lastAction' \in Recording /\ state' # state)
        => (state'.history.future = <<>> /\ redo(state') = state') ]_vars

\* a recording action was applied while an undone state was waiting for redo
C10_Witness ==
  /\ lastAction \in Recording
  /\ wasChanged
  /\ hadFuture

\* the actions that take a list of primitives or of ids
Batch ==
  { "add-primitives", "erase-primitives", "update-primitives",
    "recolor-primitives", "restroke-primitives" }

\* C11: a batch action that changes the state pushes exactly one entry on
\* history.past, whatever the number of primitives it touches, and one undo
\* brings back the whole collection and the undo stack from before it.
C11_BatchIsOneStep ==
  [][ (lastAction' \in Batch /\ state' # state)
        => /\ Len(state'.history.past) = Len(state.history.past) + 1
           /\ undo(state').primitives = state.primitives
           /\ undo(state').history.past = state.history.past ]_vars

\* a batch action has just added or removed two primitives in one step
C11_Witness ==
  /\ lastAction \in Batch
  /\ wasChanged
  /\ Len(state.history.past) > 0
  /\ LET before == state.history.past[Len(state.history.past)].primitives
     IN  Abs(Len(state.primitives) - Len(before)) = 2


C14_SplitLine ==
  \A id \in {"p1", "p3"}, P \in SplitPoints :
    LET next == splitLine(state, id, P, "p1a", "p1b")
        at == {i \in 1..Len(state.primitives) : state.primitives[i].id = id}
        atEnd(L) ==
          \/ (P.x - L.a.x) * (P.x - L.a.x) + (P.y - L.a.y) * (P.y - L.a.y) <= 1
          \/ (P.x - L.b.x) * (P.x - L.b.x) + (P.y - L.b.y) * (P.y - L.b.y) <= 1
        halves(L) ==
          << [id |-> "p1a", kind |-> "line", a |-> L.a, b |-> P, color |-> L.color],
             [id |-> "p1b", kind |-> "line", a |-> P, b |-> L.b, color |-> L.color] >>
        shown(p) == [id |-> p.id, kind |-> p.kind, a |-> p.a, b |-> p.b, color |-> p.color]
    IN  IF at = {}
          THEN next = state
          ELSE \A i \in at :
                 LET L == state.primitives[i]
                 IN  IF L.kind # "line" THEN next = state
                     ELSE IF atEnd(L) THEN next = state
                     ELSE ~DistanceToSegmentGtOne(P, L.a, L.b) =>
                            /\ Len(next.primitives) = Len(state.primitives) + 1
                            /\ SubSeq(next.primitives, 1, i - 1)
                                 = SubSeq(state.primitives, 1, i - 1)
                            /\ <<shown(next.primitives[i]), shown(next.primitives[i + 1])>>
                                 = halves(L)
                            /\ SubSeq(next.primitives, i + 2, Len(next.primitives))
                                 = SubSeq(state.primitives, i + 1, Len(state.primitives))

\* a line that stood before another primitive has just been split at a
\* point off the line, one unit away from it
C14_Witness ==
  /\ lastAction = "split-line"
  /\ wasChanged
  /\ Len(state.primitives) = 3
  /\ state.primitives[1].id = "p1a"
  /\ state.primitives[1].b = Pt(5, 1)
  /\ state.primitives[2].id = "p1b"
  /\ state.primitives[3].id = "p3"

\* C15: set-tile-shape with a shape other than the current one gives a state
\* whose tile has the new shape (and the size it had) and whose primitive
\* collection is empty.
C15_ShapeChangeClears ==
  \A shape \in TileShapes \ {state.tile.shape} :
    LET next == setTileShape(state, shape)
    IN  /\ next.tile = [shape |-> shape, size |-> state.tile.size]
        /\ next.primitives = <<>>

\* the shape has just been changed on a tile that had primitives
C15_Witness ==
  /\ lastAction = "set-tile-shape"
  /\ wasChanged
  /\ state.tile.shape = "hex-pointy"
  /\ state.primitives = <<>>
  /\ state.history.past[Len(state.history.past)].primitives # <<>>

\* C12: a clear of a state that has primitives can be undone: the undo that
\* follows it brings back the primitives from before the clear.
C12_ClearCanBeUndone ==
  [][ (lastAction' = "clear" /\ Len(state.primitives) > 0)
        => undo(state').primitives = state.primitives ]_vars

----------------------------------------------------------------------------
(* features/export/exportSvg.ts: keys and deduplication                     *)

KEY_PRECISION == 4

precisionFactor == 10 ^ KEY_PRECISION

\* quantize(value): value (counted in den-ths) rounded to KEY_PRECISION
\* decimals; the result is the number of 10^-KEY_PRECISION steps that
\* toFixed prints
quantize(value, den) == RoundDiv(value * precisionFactor, den)

quantizedPoint(point) == <<quantize(point.x, unit), quantize(point.y, unit)>>

\* the point is read back in steps of 10^-KEY_PRECISION
pointFromQuantizedKey(key) == Pt(key[1], key[2])

\* styleBucketKey that ignores the colour
styleBucketKey_IgnoresColor(color, strokeWidth) == <<"any", quantize(strokeWidth, StrokeDen)>>

styleBucketKey(color, strokeWidth) == <<color, quantize(strokeWidth, StrokeDen)>>

\* dedupeKey that keeps the direction of a line in its key
dedupeKey_Directed(fragment) ==
  LET styleKey == <<fragment.color, quantize(fragment.strokeWidth, StrokeDen)>>
  IN  IF fragment.kind = "line"
        THEN <<"line", <<quantizedPoint(fragment.a), quantizedPoint(fragment.b)>>, styleKey>>
        ELSE IF fragment.kind = "circle"
          THEN <<"circle", quantizedPoint(fragment.center), quantize(fragment.radius, unit), styleKey>>
          ELSE <<"arc", quantizedPoint(fragment.center), quantize(fragment.radius, unit),
                 quantizedPoint(fragment.start), quantizedPoint(fragment.end),
                 fragment.clockwise, fragment.largeArc, styleKey>>

\* The source orders the two spellings of a key as strings and keeps the
\* smaller one; two fragments get the same smaller spelling exactly when
\* their sets of spellings are equal, which is the key used here.
dedupeKey(fragment) ==
  LET styleKey == <<fragment.color, quantize(fragment.strokeWidth, StrokeDen)>>
  IN  IF fragment.kind = "line"
        THEN <<"line", {quantizedPoint(fragment.a), quantizedPoint(fragment.b)}, styleKey>>
        ELSE IF fragment.kind = "circle"
          THEN <<"circle", quantizedPoint(fragment.center), quantize(fragment.radius, unit), styleKey>>
          ELSE LET center == quantizedPoint(fragment.center)
                   radius == quantize(fragment.radius, unit)
                   start == quantizedPoint(fragment.start)
                   end == quantizedPoint(fragment.end)
                   forward == <<start, end, fragment.clockwise>>
                   reverse == <<end, start, ~fragment.clockwise>>
               IN  <<"arc", center, radius, {forward, reverse}, fragment.largeArc, styleKey>>

\* the first fragment of every key, in the order of first appearance
dedupeFragments(fragments) ==
  LET firstOfKey(i) == \A j \in 1..(i - 1) : dedupeKey(fragments[j]) # dedupeKey(fragments[i])
      kept == {i \in 1..Len(fragments) : firstOfKey(i)}
      RECURSIVE Pick(_)
      Pick(i) == IF i > Len(fragments) THEN <<>>
                 ELSE IF i \in kept THEN <<fragments[i]>> \o Pick(i + 1)
                 ELSE Pick(i + 1)
  IN  Pick(1)

----------------------------------------------------------------------------
(* features/export/exportSvg.ts: plotter path joining                       *)

\* Math.hypot(dx, dy) <= CLIP_EPSILON for a vector whose components are
\* counted in unit-ths or in steps of 10^-KEY_PRECISION: both steps are
\* longer than CLIP_EPSILON, so only the zero vector is that short
HypotLeEps(dx, dy) == dx = 0 /\ dy = 0

\* the edges of the line graph: one per fragment that is longer than
\* CLIP_EPSILON and whose quantized endpoints differ
GraphEdges(lineFragments) ==
  LET isEdge(f) ==
        /\ ~HypotLeEps(f.b.x - f.a.x, f.b.y - f.a.y)
        /\ quantizedPoint(f.a) # quantizedPoint(f.b)
      kept == SelectSeq(lineFragments, isEdge)
  IN  [i \in 1..Len(kept) |-> [a |-> quantizedPoint(kept[i].a), b |-> quantizedPoint(kept[i].b)]]

\* the keys of the nodes Map, in insertion order
NodeOrder(edges) ==
  LET ends == [i \in 1..(2 * Len(edges)) |->
                 IF i % 2 = 1 THEN edges[(i + 1) \div 2].a ELSE edges[i \div 2].b]
      RECURSIVE Pick(_)
      Pick(i) == IF i > Len(ends) THEN <<>>
                 ELSE IF \E j \in 1..(i - 1) : ends[j] = ends[i] THEN Pick(i + 1)
                 ELSE <<ends[i]>> \o Pick(i + 1)
  IN  Pick(1)

\* node.edgeIds without the used edges (edgeIds is ascending)
UnusedEdgeIds(key, edges, used) ==
  {i \in 1..Len(edges) : (edges[i].a = key \/ edges[i].b = key) /\ i \notin used}

hasUnusedEdge(key, edges, used) == UnusedEdgeIds(key, edges, used) # {}

unusedDegree(key, edges, used) == Cardinality(UnusedEdgeIds(key, edges, used))

SetMin(S) == CHOOSE x \in S : \A y \in S : x <= y

compressRepeatedPoints(points) ==
  LET RECURSIVE Go(_, _)
      Go(i, compressed) ==
        IF i > Len(points) THEN compressed
        ELSE LET previous == compressed[Len(compressed)]
                 next == points[i]
             IN  IF ~HypotLeEps(next.x - previous.x, next.y - previous.y)
                   THEN Go(i + 1, Append(compressed, next))
                   ELSE Go(i + 1, compressed)
  IN  IF Len(points) <= 1 THEN points ELSE Go(2, <<points[1]>>)

\* consumeTrail that stops after the first edge
consumeTrail_OneEdge(startNodeKey, edges, used) ==
  LET nextEdgeId == SetMin(UnusedEdgeIds(startNodeKey, edges, used))
      edge == edges[nextEdgeId]
  IN  IF UnusedEdgeIds(startNodeKey, edges, used) = {}
        THEN [trail |-> <<startNodeKey>>, used |-> used]
        ELSE [trail |-> <<startNodeKey, IF edge.a = startNodeKey THEN edge.b ELSE edge.a>>,
              used |-> used \cup {nextEdgeId}]

\* the walk along first unused edges; returns the trail and the edges used
consumeTrail(startNodeKey, edges, used) ==
  LET RECURSIVE Walk(_, _, _)
      Walk(currentNodeKey, trail, usedNow) ==
        LET candidates == UnusedEdgeIds(currentNodeKey, edges, usedNow)
        IN  IF candidates = {}
              THEN [trail |-> trail, used |-> usedNow]
              ELSE LET nextEdgeId == SetMin(candidates)
                       edge == edges[nextEdgeId]
                       nextKey == IF edge.a = currentNodeKey THEN edge.b ELSE edge.a
                   IN  Walk(nextKey, Append(trail, nextKey), usedNow \cup {nextEdgeId})
  IN  Walk(startNodeKey, <<startNodeKey>>, used)

\* start selection without the preference for odd nodes
StartNode_AnyNode(nodeOrder, edges, used) ==
  LET withEdge == {i \in 1..Len(nodeOrder) : hasUnusedEdge(nodeOrder[i], edges, used)}
  IN  IF withEdge = {} THEN <<>> ELSE <<nodeOrder[SetMin(withEdge)]>>

\* oddStart ?? fallbackStart; <<>> when no node has an unused edge
StartNode(nodeOrder, edges, used) ==
  LET withEdge == {i \in 1..Len(nodeOrder) : hasUnusedEdge(nodeOrder[i], edges, used)}
      odd == {i \in withEdge : unusedDegree(nodeOrder[i], edges, used) % 2 = 1}
  IN  IF odd # {} THEN <<nodeOrder[SetMin(odd)]>>
      ELSE IF withEdge # {} THEN <<nodeOrder[SetMin(withEdge)]>>
      ELSE <<>>

\* buildJoinedLinePaths that emits only trails of two or more edges
buildJoinedLinePaths_DropsSingleEdges(lineFragments) ==
  LET edges == GraphEdges(lineFragments)
      nodeOrder == NodeOrder(edges)
      color == lineFragments[1].color
      strokeWidth == lineFragments[1].strokeWidth
      RECURSIVE Loop(_, _)
      Loop(used, joinedPaths) ==
        LET start == StartNode(nodeOrder, edges, used)
        IN  IF start = <<>>
              THEN joinedPaths
              ELSE LET walk == consumeTrail(start[1], edges, used)
                       points == compressRepeatedPoints(
                                   [i \in 1..Len(walk.trail) |->
                                      pointFromQuantizedKey(walk.trail[i])])
                   IN  IF Len(walk.trail) < 3 \/ Len(points) < 2
                         THEN Loop(walk.used, joinedPaths)
                         ELSE Loop(walk.used,
                                   Append(joinedPaths,
                                          [kind |-> "line-path", color |-> color,
                                           strokeWidth |-> strokeWidth, points |-> points]))
  IN  IF Len(lineFragments) = 0 \/ Len(edges) = 0 THEN <<>> ELSE Loop({}, <<>>)

buildJoinedLinePaths(lineFragments) ==
  LET edges == GraphEdges(lineFragments)
      nodeOrder == NodeOrder(edges)
      color == lineFragments[1].color
      strokeWidth == lineFragments[1].strokeWidth
      RECURSIVE Loop(_, _)
      Loop(used, joinedPaths) ==
        LET start == StartNode(nodeOrder, edges, used)
        IN  IF start = <<>>
              THEN joinedPaths
              ELSE LET walk == consumeTrail(start[1], edges, used)
                       points == compressRepeatedPoints(
                                   [i \in 1..Len(walk.trail) |->
                                      pointFromQuantizedKey(walk.trail[i])])
                   IN  IF Len(walk.trail) < 2 \/ Len(points) < 2
                         THEN Loop(walk.used, joinedPaths)
                         ELSE Loop(walk.used,
                                   Append(joinedPaths,
                                          [kind |-> "line-path", color |-> color,
                                           strokeWidth |-> strokeWidth, points |-> points]))
  IN  IF Len(lineFragments) = 0 \/ Len(edges) = 0 THEN <<>> ELSE Loop({}, <<>>)

\* the keys of the lineBuckets Map, in insertion order
BucketOrder(fragments) ==
  LET lines == SelectSeq(fragments, LAMBDA f : f.kind = "line")
      RECURSIVE Pick(_)
      Pick(i) ==
        IF i > Len(lines) THEN <<>>
        ELSE IF \E j \in 1..(i - 1) :
                  styleBucketKey(lines[j].color, lines[j].strokeWidth)
                    = styleBucketKey(lines[i].color, lines[i].strokeWidth)
          THEN Pick(i + 1)
          ELSE <<styleBucketKey(lines[i].color, lines[i].strokeWidth)>> \o Pick(i + 1)
  IN  Pick(1)

Bucket(fragments, key) ==
  SelectSeq(fragments,
            LAMBDA f : f.kind = "line" /\ styleBucketKey(f.color, f.strokeWidth) = key)

joinLineFragmentsForPlotter(fragments) ==
  LET passthrough == SelectSeq(fragments, LAMBDA f : f.kind # "line")
      keys == BucketOrder(fragments)
      RECURSIVE Joined(_)
      Joined(i) == IF i > Len(keys) THEN <<>>
                   ELSE buildJoinedLinePaths(Bucket(fragments, keys[i])) \o Joined(i + 1)
  IN  Joined(1) \o passthrough

----------------------------------------------------------------------------
(* Joining specification: dedupeFragments and joinLineFragmentsForPlotter   *)
(* applied to every short list of line fragments over a few points          *)

\* bound on the number of fragments handed to the joiner
MaxFragments == 4

LineFragment(a, b, color, strokeWidth) ==
  [kind |-> "line", a |-> a, b |-> b, color |-> color, strokeWidth |-> strokeWidth]

\* a hub and four points one drawing unit away from it, and a point a
\* quarter of a quantization step away from the first of them
JoinFragments ==
  LET step == 40000
      A == Pt(0, 0)
      B == Pt(step, 0)
      C == Pt(0, step)
      D == Pt(0 - step, 0)
      E == Pt(0, 0 - step)
      Bnear == Pt(step - 1, 0)
      w == FIXED_STROKE_WIDTH
  IN  { LineFragment(A, B, "#111", w), LineFragment(A, C, "#111", w),
        LineFragment(A, D, "#111", w), LineFragment(A, E, "#111", w),
        LineFragment(B, C, "#111", w),
        LineFragment(B, A, "#111", w), LineFragment(A, Bnear, "#111", w),
        LineFragment(A, B, "#1d4ed8", w),
        LineFragment(C, D, "#111", MAX_STROKE_WIDTH),
        LineFragment(B, Bnear, "#111", w), LineFragment(A, A, "#111", w) }

SeqsUpTo(S, n) == UNION {[1..k -> S] : k \in 1..n}

JoinInit ==
  /\ ReducerInit
  /\ GeometryIdle
  /\ AppIdle
  /\ unit = 40000
  /\ pc = "input"
  /\ project = NoProject
  /\ cell = NoCell
  /\ frags \in SeqsUpTo(JoinFragments, MaxFragments)
  /\ deduped = <<>>
  /\ optimized = <<>>

\* the tail of buildTiledSvg: deduplicate, then join
DedupeAndJoin ==
  /\ pc = "input"
  /\ pc' = "done"
  /\ deduped' = dedupeFragments(frags)
  /\ optimized' = joinLineFragmentsForPlotter(dedupeFragments(frags))
  /\ UNCHANGED <<unit, project, cell, frags>>
  /\ UNCHANGED rvars
  /\ UNCHANGED gvars
  /\ UNCHANGED app

JoinNext == DedupeAndJoin

JoinSpec == JoinInit /\ [][JoinNext]_vars

----------------------------------------------------------------------------
(* Joining claims                                                           *)

\* the line graph of one style among the deduplicated fragments
StyleOf(fragment) == <<fragment.color, quantize(fragment.strokeWidth, StrokeDen)>>

Styles == {StyleOf(deduped[i]) : i \in {j \in 1..Len(deduped) : deduped[j].kind = "line"}}

EdgesOfStyle(style) ==
  GraphEdges(SelectSeq(deduped, LAMBDA f : f.kind = "line" /\ StyleOf(f) = style))

PathsOfStyle(style) ==
  SelectSeq(optimized, LAMBDA f : f.kind = "line-path" /\ StyleOf(f) = style)

GraphNodes(edges) == {edges[i].a : i \in 1..Len(edges)} \cup {edges[i].b : i \in 1..Len(edges)}

Degree(key, edges) == Cardinality({i \in 1..Len(edges) : edges[i].a = key \/ edges[i].b = key})

OddNodes(edges) == {k \in GraphNodes(edges) : Degree(k, edges) % 2 = 1}

Connected(edges) ==
  LET RECURSIVE Reach(_)
      Reach(S) ==
        LET T == S \cup {edges[i].a : i \in {j \in 1..Len(edges) : edges[j].b \in S}}
                   \cup {edges[i].b : i \in {j \in 1..Len(edges) : edges[j].a \in S}}
        IN  IF T = S THEN S ELSE Reach(T)
  IN  Len(edges) >= 1 /\ Reach({edges[1].a}) = GraphNodes(edges)

Acyclic(edges) == Len(edges) = Cardinality(GraphNodes(edges)) - 1

\* the edges, in list order, are the steps of one walk
ChainInOrder(edges) ==
  LET RECURSIVE Follows(_, _)
      Follows(i, current) ==
        IF i > Len(edges) THEN TRUE
        ELSE \/ edges[i].a = current /\ Follows(i + 1, edges[i].b)
             \/ edges[i].b = current /\ Follows(i + 1, edges[i].a)
  IN  Len(edges) >= 1 /\ (Follows(2, edges[1].b) \/ Follows(2, edges[1].a))

SimpleChain(edges) ==
  Connected(edges) /\ \A k \in GraphNodes(edges) : Degree(k, edges) <= 2

\* C3: same-style fragments that form one simple chain (connected, every
\* quantized endpoint shared by at most two fragments) are emitted as exactly
\* one path, which runs through all of them.
C3_SimpleChainIsOnePath ==
  pc = "done" =>
    \A style \in Styles :
      SimpleChain(EdgesOfStyle(style)) =>
        /\ Len(PathsOfStyle(style)) = 1
        /\ Len(PathsOfStyle(style)[1].points) = Len(EdgesOfStyle(style)) + 1

C3_Witness ==
  /\ pc = "done"
  /\ Len(frags) > Len(deduped)
  /\ \E style \in Styles :
       /\ SimpleChain(EdgesOfStyle(style))
       /\ Len(EdgesOfStyle(style)) = 3
       /\ Acyclic(EdgesOfStyle(style))
       /\ Len(PathsOfStyle(style)) = 1

\* C3 as stated: same-style fragments that form a chain, each consecutive
\* pair sharing a quantized endpoint, are emitted as exactly one path.
C3_AnyChainIsOnePath ==
  pc = "done" =>
    \A style \in Styles :
      ChainInOrder(EdgesOfStyle(style)) => Len(PathsOfStyle(style)) = 1

\* C4: a connected same-style line graph with 2k odd-degree nodes is emitted
\* as at least max(1, k) paths, and as exactly k paths when it has no cycle
\* (four spokes meeting at one point give exactly 2 paths).
C4_PathCount ==
  pc = "done" =>
    \A style \in Styles :
      LET edges == EdgesOfStyle(style)
          k == Cardinality(OddNodes(edges)) \div 2
      IN  Connected(edges) =>
            /\ Len(PathsOfStyle(style)) >= Max(1, k)
            /\ Acyclic(edges) => Len(PathsOfStyle(style)) = k

C4_Witness ==
  /\ pc = "done"
  /\ \E style \in Styles :
       LET edges == EdgesOfStyle(style)
       IN  /\ Connected(edges)
           /\ Acyclic(edges)
           /\ Len(edges) = 4
           /\ \E hub \in GraphNodes(edges) : Degree(hub, edges) = 4
           /\ Len(PathsOfStyle(style)) = 2

\* C4 as stated: a connected same-style line graph with 2k odd-degree nodes
\* (k >= 1) is emitted as exactly k paths, one without odd-degree nodes as
\* exactly 1 path.
C4_MinimalPathCount ==
  pc = "done" =>
    \A style \in Styles :
      LET edges == EdgesOfStyle(style)
          k == Cardinality(OddNodes(edges)) \div 2
      IN  Connected(edges) => Len(PathsOfStyle(style)) = Max(1, k)

\* the segment from points[i] to points[i + 1] is a deduplicated line
\* fragment of the path's own colour and quantized stroke width
SegmentHasStyleOf(path, i) ==
  \E j \in 1..Len(deduped) :
    /\ deduped[j].kind = "line"
    /\ deduped[j].color = path.color
    /\ quantize(deduped[j].strokeWidth, StrokeDen) = quantize(path.strokeWidth, StrokeDen)
    /\ {pointFromQuantizedKey(quantizedPoint(deduped[j].a)),
        pointFromQuantizedKey(quantizedPoint(deduped[j].b))}
         = {path.points[i], path.points[i + 1]}

\* C7: every emitted path consists of segments of one colour and quantized
\* stroke width, and each style's fragments are all emitted in paths of that
\* style, so fragments of different styles never share a path.
C7_JoinIsolatedByStyle ==
  pc = "done" =>
    /\ \A p \in 1..Len(optimized) :
         optimized[p].kind = "line-path" =>
           \A i \in 1..(Len(optimized[p].points) - 1) : SegmentHasStyleOf(optimized[p], i)
    /\ \A style \in Styles :
         SeqSum([p \in 1..Len(PathsOfStyle(style)) |-> Len(PathsOfStyle(style)[p].points) - 1])
           = Len(EdgesOfStyle(style))

C7_Witness ==
  /\ pc = "done"
  /\ Cardinality(Styles) = 3
  /\ \E s \in Styles, t \in Styles :
       /\ s # t
       /\ GraphNodes(EdgesOfStyle(s)) \cap GraphNodes(EdgesOfStyle(t)) # {}
  /\ Len(optimized) = 3

----------------------------------------------------------------------------
(* geometry/tile.ts and geometry/transforms.ts (square tiles)               *)

cross(a, b) == a.x * b.y - a.y * b.x

\* the square of half-size s; the corners of a hexagon are irrational and
\* are not modelled
getTilePolygon(config) ==
  LET s == config.size
  IN  <<Pt(0 - s, 0 - s), Pt(s, 0 - s), Pt(s, s), Pt(0 - s, s)>>

tileBasisVectors(config) ==
  LET d == config.size * 2
  IN  [u |-> Pt(d, 0), v |-> Pt(0, d)]

periodicNeighborOffsets(config) ==
  LET u == tileBasisVectors(config).u
      v == tileBasisVectors(config).v
      \* k counts the pairs (i, j) with i the outer loop and j the inner one
      i(k) == ((k - 1) \div 3) - 1
      j(k) == ((k - 1) % 3) - 1
  IN  [k \in 1..9 |-> Pt(i(k) * u.x + j(k) * v.x, i(k) * u.y + j(k) * v.y)]

translatePoints(points, offset) ==
  [k \in 1..Len(points) |-> Pt(points[k].x + offset.x, points[k].y + offset.y)]

\* a line moves with both endpoints; every other primitive has only its
\* center moved, so an arc keeps its start and end where they were
translatePrimitive(primitive, offset) ==
  IF primitive.kind = "line"
    THEN [primitive EXCEPT !.a = Pt(primitive.a.x + offset.x, primitive.a.y + offset.y),
                           !.b = Pt(primitive.b.x + offset.x, primitive.b.y + offset.y)]
    ELSE [primitive EXCEPT !.center = Pt(primitive.center.x + offset.x,
                                         primitive.center.y + offset.y)]

getCellOffset(tile, col, row) ==
  LET u == tileBasisVectors(tile).u
      v == tileBasisVectors(tile).v
  IN  Pt(col * u.x + row * v.x, col * u.y + row * v.y)

----------------------------------------------------------------------------
(* features/export/exportSvg.ts: convex polygons                            *)

\* twice the signed area; only its sign is used
polygonSignedArea(points) ==
  SeqSum([k \in 1..Len(points) |->
            points[k].x * points[(k % Len(points)) + 1].y
              - points[k].y * points[(k % Len(points)) + 1].x])

convexPolygonEdges(polygon) ==
  LET orientation == IF polygonSignedArea(polygon) >= 0 THEN 1 ELSE 0 - 1
      a(k) == polygon[k]
      b(k) == polygon[(k % Len(polygon)) + 1]
      edge(k) == subtract(b(k), a(k))
  IN  [k \in 1..Len(polygon) |->
         [a |-> a(k), b |-> b(k),
          inwardNormal |-> IF orientation > 0
                             THEN Pt(0 - edge(k).y, edge(k).x)
                             ELSE Pt(edge(k).y, 0 - edge(k).x)]]

\* signedDistance < -CLIP_EPSILON for a point with integer coordinates: the
\* signed distance is an integer, so it is below -10^-6 exactly when negative
pointInConvexPolygon(point, edges) ==
  \A k \in 1..Len(edges) : dot(edges[k].inwardNormal, subtract(point, edges[k].a)) >= 0

\* Math.sqrt on the perfect squares that the modelled inputs produce
\* (the largest n with n * n <= value otherwise)
Sqrt(value) ==
  LET RECURSIVE Bisect(_, _)
      Bisect(lo, hi) ==
        IF hi - lo <= 1 THEN lo
        ELSE LET mid == (lo + hi) \div 2
             IN  IF mid * mid <= value THEN Bisect(mid, hi) ELSE Bisect(lo, mid)
  IN  IF value <= 0 THEN 0 ELSE Bisect(0, Min(value + 1, 46341))

\* the points where the circle meets the segment from a to b; the roots
\* are kept as numerators over 2 * aa, which makes the tolerance tests on
\* them exact
intersectCircleSegment(center, radius, a, b) ==
  LET direction == subtract(b, a)
      fromCenter == subtract(a, center)
      aa == dot(direction, direction)
      bb == 2 * dot(fromCenter, direction)
      cc == dot(fromCenter, fromCenter) - radius * radius
      discriminant == bb * bb - 4 * aa * cc
      sqrtDisc == Sqrt(discriminant)
      ts == IF discriminant = 0
              THEN <<0 - bb>>
              ELSE <<0 - bb - sqrtDisc, 0 - bb + sqrtDisc>>
      kept == SelectSeq(ts, LAMBDA t : t >= 0 /\ t <= 2 * aa)
  IN  IF aa = 0 \/ discriminant < 0
        THEN <<>>
        ELSE [k \in 1..Len(kept) |->
                Pt(a.x + (direction.x * kept[k]) \div (2 * aa),
                   a.y + (direction.y * kept[k]) \div (2 * aa))]

----------------------------------------------------------------------------
(* features/export/exportSvg.ts: angles                                     *)
(* An angle around a center is kept as the vector from the center to the   *)
(* point on the circle; all vectors compared have the same length.          *)

\* 0 for normalizeAngle(atan2(y, x)) in [0, pi), 1 for [pi, 2 pi)
AngleHalf(d) == IF d.y > 0 \/ (d.y = 0 /\ d.x > 0) THEN 0 ELSE 1

\* normalizeAngle(angle of d) < normalizeAngle(angle of e)
AngleLess(d, e) ==
  \/ AngleHalf(d) < AngleHalf(e)
  \/ AngleHalf(d) = AngleHalf(e) /\ cross(d, e) > 0

RECURSIVE SortAngles(_)
SortAngles(S) ==
  IF S = {} THEN <<>>
  ELSE LET first == CHOOSE d \in S : \A e \in S \ {d} : AngleLess(d, e)
       IN  <<first>> \o SortAngles(S \ {first})

\* the sorted distinct angles of the points as seen from the center
dedupeAngles(points, center) ==
  SortAngles({subtract(points[k], center) : k \in 1..Len(points)})

\* direction of the angle halfway from start to end, going by increasing
\* angle; end = start stands for a full turn
MidAngle(start, end) ==
  IF start = end THEN Pt(0 - start.x, 0 - start.y)
  ELSE IF cross(start, end) > 0 THEN Pt(start.x + end.x, start.y + end.y)
  ELSE IF cross(start, end) < 0 THEN Pt(0 - start.x - end.x, 0 - start.y - end.y)
  ELSE Pt(0 - start.y, start.x)

\* a * sqrt(n) + b >= 0
SurdNonNegative(a, b, n) ==
  IF a >= 0 /\ b >= 0 THEN TRUE
  ELSE IF a < 0 /\ b < 0 THEN FALSE
  ELSE IF a >= 0 THEN a * a * n >= b * b
  ELSE b * b >= a * a * n

\* pointInConvexPolygon that lets every sample point pass
samplePointInConvexPolygon_Always(center, radius, direction, edges) == TRUE

\* pointInConvexPolygon(pointOnCircle(center, radius, angle), edges) for
\* the angle of `direction`: with m = direction and N = m.m the signed
\* distance to an edge is normal.(center - a) + radius * (normal.m) / sqrt(N),
\* an algebraic number that is either 0 or further than 10^-6 from 0 for
\* the coordinates used here
samplePointInConvexPolygon(center, radius, direction, edges) ==
  \A k \in 1..Len(edges) :
    SurdNonNegative(dot(edges[k].inwardNormal, subtract(center, edges[k].a)),
                    radius * dot(edges[k].inwardNormal, direction),
                    dot(direction, direction))

----------------------------------------------------------------------------
(* features/export/exportSvg.ts: clipping                                   *)

\* a parameter t = n / d of a line, d > 0
Frac(n, d) == IF d < 0 THEN [n |-> 0 - n, d |-> 0 - d] ELSE [n |-> n, d |-> d]

FracLess(s, t) == s.n * t.d < t.n * s.d

FracMax(s, t) == IF FracLess(s, t) THEN t ELSE s

FracMin(s, t) == IF FracLess(t, s) THEN t ELSE s

\* a parameter is a quotient of whole numbers whose denominator, once the
\* length of the normal is cancelled, is at most the extent of the line
\* (below 2^6 steps); two parameters are equal or more than 2^-12 apart,
\* so the tolerance tests are tests of the exact order
clipLineToConvexPolygon(primitive, edges, strokeWidth) ==
  LET direction == subtract(primitive.b, primitive.a)
      pointAt(t) == Pt(primitive.a.x + (direction.x * t.n) \div t.d,
                       primitive.a.y + (direction.y * t.n) \div t.d)
      clamp(t) == FracMax(Frac(0, 1), FracMin(Frac(1, 1), t))
      RECURSIVE Loop(_, _, _)
      Loop(k, tEnter, tExit) ==
        IF k > Len(edges)
          THEN IF ~FracLess(clamp(tEnter), clamp(tExit))
                 THEN <<>>
                 ELSE <<[kind |-> "line", color |-> primitive.color,
                         strokeWidth |-> strokeWidth,
                         a |-> pointAt(clamp(tEnter)), b |-> pointAt(clamp(tExit))]>>
          ELSE LET offset == dot(edges[k].inwardNormal, subtract(primitive.a, edges[k].a))
                   denominator == dot(edges[k].inwardNormal, direction)
                   t == Frac(0 - offset, denominator)
                   nextEnter == IF denominator > 0 THEN FracMax(tEnter, t) ELSE tEnter
                   nextExit == IF denominator > 0 THEN tExit ELSE FracMin(tExit, t)
               IN  IF denominator = 0
                     THEN IF offset < 0 THEN <<>> ELSE Loop(k + 1, tEnter, tExit)
                     ELSE IF FracLess(nextExit, nextEnter)
                       THEN <<>>
                       ELSE Loop(k + 1, nextEnter, nextExit)
  IN  Loop(1, Frac(0, 1), Frac(1, 1))

\* the fragment from the angle of `start` to the angle of `end`; no
\* fragment when the two angles are equal (delta <= CLIP_EPSILON)
createArcFragment(center, radius, start, end, clockwise, color, strokeWidth) ==
  IF start = end
    THEN <<>>
    ELSE <<[kind |-> "arc", color |-> color, strokeWidth |-> strokeWidth,
            center |-> center, radius |-> radius,
            start |-> Pt(center.x + start.x, center.y + start.y),
            end |-> Pt(center.x + end.x, center.y + end.y),
            clockwise |-> clockwise,
            largeArc |-> IF clockwise THEN cross(start, end) < 0 ELSE cross(start, end) > 0]>>

RECURSIVE Flatten(_)
Flatten(seqs) == IF seqs = <<>> THEN <<>> ELSE Head(seqs) \o Flatten(Tail(seqs))

\* clipCircleToConvexPolygon that always emits the whole circle
clipCircleToConvexPolygon_Whole(primitive, edges, strokeWidth) ==
  <<[kind |-> "circle", color |-> primitive.color, strokeWidth |-> strokeWidth,
     center |-> primitive.center, radius |-> primitive.radius]>>

\* radii are whole numbers >= 1, so Math.max(EPSILON, radius) = radius
clipCircleToConvexPolygon(primitive, edges, strokeWidth) ==
  LET center == primitive.center
      radius == primitive.radius
      intersections ==
        Flatten([k \in 1..Len(edges) |->
                   intersectCircleSegment(center, radius, edges[k].a, edges[k].b)])
      circle == [kind |-> "circle", color |-> primitive.color, strokeWidth |-> strokeWidth,
                 center |-> center, radius |-> radius]
      \* the gap from one angle to the next; the only gap of a single angle
      \* is the full turn (delta >= TAU - CLIP_EPSILON)
      gap(start, end, fullTurn) ==
        IF ~samplePointInConvexPolygon(center, radius, MidAngle(start, end), edges)
          THEN <<>>
          ELSE IF fullTurn
            THEN <<circle>>
            ELSE createArcFragment(center, radius, start, end, TRUE,
                                   primitive.color, strokeWidth)
      gaps(angles) ==
        IF Len(angles) = 0
          THEN IF pointInConvexPolygon(Pt(center.x + radius, center.y), edges)
                 THEN <<circle>>
                 ELSE <<>>
          ELSE Flatten([k \in 1..Len(angles) |->
                          gap(angles[k], angles[(k % Len(angles)) + 1], Len(angles) = 1)])
  IN  gaps(dedupeAngles(intersections, center))

----------------------------------------------------------------------------
(* geometry/arc.ts                                                          *)

\* distances are whole numbers for the modelled arcs, whose start is never
\* the center; radius < EPSILON and magnitude < EPSILON are tests for 0
projectPointToCircle(center, radius, point) ==
  LET offsetX == point.x - center.x
      offsetY == point.y - center.y
      magnitude == Sqrt(offsetX * offsetX + offsetY * offsetY)
  IN  IF radius = 0 THEN center
      ELSE IF magnitude = 0 THEN Pt(center.x + radius, center.y)
      ELSE Pt(center.x + (offsetX * radius) \div magnitude,
              center.y + (offsetY * radius) \div magnitude)

\* clockwiseDelta <= counterclockwiseDelta: the angle from start to end,
\* going by increasing angle, is at most pi
isClockwiseMinorArc(center, start, end) ==
  cross(subtract(start, center), subtract(end, center)) >= 0

normalizeArc(arc) ==
  LET radiusOf(startRadius, endRadius) == IF startRadius > 0 THEN startRadius ELSE endRadius
      between(start, end) ==
        [arc EXCEPT !.start = start, !.end = end,
                    !.clockwise = isClockwiseMinorArc(arc.center, start, end)]
      projected(radius) ==
        between(projectPointToCircle(arc.center, radius, arc.start),
                projectPointToCircle(arc.center, radius, arc.end))
  IN  projected(radiusOf(
        Sqrt(dot(subtract(arc.start, arc.center), subtract(arc.start, arc.center))),
        Sqrt(dot(subtract(arc.end, arc.center), subtract(arc.end, arc.center)))))

----------------------------------------------------------------------------
(* features/export/exportSvg.ts: arcs and the tiled export                  *)

\* The sweep of an arc: it leaves `start` and reaches `end` (vectors from
\* the center) by increasing angle when clockwise.  The stored clockwise
\* flag of the primitive is not read.  zero: delta <= CLIP_EPSILON; full:
\* delta = TAU (start = end with largeArc set).
resolveArcSweep(arc) ==
  LET sweepOf(normalized) ==
        LET start == subtract(normalized.start, normalized.center)
            end == subtract(normalized.end, normalized.center)
            clockwiseMinor ==
              isClockwiseMinorArc(normalized.center, normalized.start, normalized.end)
        IN  [center |-> normalized.center,
             radius |-> Sqrt(dot(start, start)),
             start |-> start,
             end |-> end,
             clockwise |-> IF normalized.largeArc THEN ~clockwiseMinor ELSE clockwiseMinor,
             zero |-> start = end /\ ~normalized.largeArc,
             full |-> start = end /\ normalized.largeArc]
  IN  sweepOf(normalizeArc(arc))

\* angularTravel(sweep.startAngle, angle of d, sweep.clockwise) as a vector
\* whose angle is the travel
Travel(sweep, d) ==
  Pt(dot(sweep.start, d),
     IF sweep.clockwise THEN cross(sweep.start, d) ELSE 0 - cross(sweep.start, d))

TravelLess(sweep, d, e) == AngleLess(Travel(sweep, d), Travel(sweep, e))

RECURSIVE SortTravels(_, _)
SortTravels(sweep, S) ==
  IF S = {} THEN <<>>
  ELSE LET first == CHOOSE d \in S : \A e \in S \ {d} : TravelLess(sweep, d, e)
       IN  <<first>> \o SortTravels(sweep, S \ {first})

clipArcToConvexPolygon(primitive, edges, strokeWidth) ==
  LET intersections(sweep) ==
        Flatten([k \in 1..Len(edges) |->
                   intersectCircleSegment(sweep.center, sweep.radius, edges[k].a, edges[k].b)])
      \* travel > CLIP_EPSILON /\ travel < sweep.delta - CLIP_EPSILON
      splits(sweep, points) ==
        {d \in {subtract(points[k], sweep.center) : k \in 1..Len(points)} :
           d # sweep.start /\ (sweep.full \/ TravelLess(sweep, d, sweep.end))}
      piece(sweep, start, end) ==
        LET middle == IF sweep.clockwise THEN MidAngle(start, end) ELSE MidAngle(end, start)
        IN  IF ~samplePointInConvexPolygon(sweep.center, sweep.radius, middle, edges)
              THEN <<>>
              ELSE createArcFragment(sweep.center, sweep.radius, start, end,
                                     sweep.clockwise, primitive.color, strokeWidth)
      pieces(sweep, travels) ==
        Flatten([k \in 1..(Len(travels) - 1) |-> piece(sweep, travels[k], travels[k + 1])])
      clip(sweep) ==
        IF sweep.zero THEN <<>>
        ELSE pieces(sweep,
                    <<sweep.start>>
                      \o SortTravels(sweep, splits(sweep, intersections(sweep)))
                      \o <<sweep.end>>)
  IN  clip(resolveArcSweep(primitive))

clipPrimitiveToConvexPolygon(primitive, edges) ==
  LET strokeWidth == getPrimitiveStrokeWidth(primitive)
  IN  IF primitive.kind = "line" THEN clipLineToConvexPolygon(primitive, edges, strokeWidth)
      ELSE IF primitive.kind = "circle"
        THEN clipCircleToConvexPolygon(primitive, edges, strokeWidth)
        ELSE clipArcToConvexPolygon(primitive, edges, strokeWidth)

TileOf(options) == [shape |-> "square", size |-> options.size]

CellEdges(options, col, row) ==
  convexPolygonEdges(translatePoints(getTilePolygon(TileOf(options)),
                                     getCellOffset(TileOf(options), col, row)))

\* the fragments of one primitive in one cell: the primitive moved by the
\* cell offset plus each of the nine neighbour offsets, clipped to the cell
CellFragments(options, primitive, col, row) ==
  LET cellOffset == getCellOffset(TileOf(options), col, row)
      neighborOffsets == periodicNeighborOffsets(TileOf(options))
  IN  Flatten([n \in 1..Len(neighborOffsets) |->
                 clipPrimitiveToConvexPolygon(
                   translatePrimitive(primitive,
                                      Pt(cellOffset.x + neighborOffsets[n].x,
                                         cellOffset.y + neighborOffsets[n].y)),
                   CellEdges(options, col, row))])

\* renderedFragments of buildTiledSvg: rows outside, columns inside
RenderedFragments(options) ==
  Flatten([c \in 1..(options.rows * options.columns) |->
             Flatten([p \in 1..Len(options.primitives) |->
                        CellFragments(options, options.primitives[p],
                                      (c - 1) % options.columns,
                                      (c - 1) \div options.columns)])])

----------------------------------------------------------------------------
(* Export specification: buildTiledSvg on short lists of primitives drawn   *)
(* on a square tile of half-size 8, exported as a row of cells              *)

\* bound on the number of primitives in the exported project
MaxPrimitives == 2

\* bound on the number of columns of the exported pattern
MaxColumns == 2

Arc(id, center, start, end, largeArc, color, strokeWidth) ==
  [id |-> id, kind |-> "arc", center |-> center, start |-> start, end |-> end,
   clockwise |-> isClockwiseMinorArc(center, start, end), largeArc |-> largeArc,
   color |-> color, strokeWidth |-> strokeWidth]

\* lines inside the tile, across its right edge, on its right edge (drawn
\* both ways), through a corner and across three tiles; circles of radius 5
\* inside the tile, across an edge, touching one edge, touching two edges
\* and around a corner
ExportPrimitives ==
  { Line("inner", Pt(0 - 4, 0), Pt(4, 0), "#111", Undefined),
    Line("wrap", Pt(0, 0), Pt(16, 0), "#111", Undefined),
    Line("wrapBlue", Pt(0, 0), Pt(16, 0), "#1d4ed8", Undefined),
    Line("edge", Pt(8, 0 - 4), Pt(8, 4), "#111", Undefined),
    Line("edgeBack", Pt(8, 4), Pt(8, 0 - 4), "#111", Undefined),
    Line("diagonal", Pt(0 - 4, 0 - 4), Pt(12, 12), "#111", Undefined),
    Line("long", Pt(0 - 8, 0 - 4), Pt(40, 8), "#111", Undefined),
    Circle("inside", Pt(0, 0), 5, "#111", Undefined),
    Circle("crossing", Pt(5, 0), 5, "#111", Undefined),
    Circle("touching", Pt(3, 0), 5, "#111", Undefined),
    Circle("inscribed", Pt(3, 3), 5, "#111", Undefined),
    Circle("corner", Pt(8, 8), 5, "#111", Undefined) }

ExportInit ==
  /\ ReducerInit
  /\ GeometryIdle
  /\ AppIdle
  /\ unit = 1
  /\ pc = "input"
  /\ project \in [primitives : SeqsUpTo(ExportPrimitives, MaxPrimitives),
                  columns : 1..MaxColumns, rows : {1}, size : {8}]
  /\ cell = NoCell
  /\ frags = <<>>
  /\ deduped = <<>>
  /\ optimized = <<>>

BuildTiledSvg ==
  /\ pc = "input"
  /\ pc' = "done"
  /\ frags' = RenderedFragments(project)
  /\ deduped' = dedupeFragments(frags')
  /\ optimized' = joinLineFragmentsForPlotter(deduped')
  /\ UNCHANGED <<unit, project, cell>>
  /\ UNCHANGED rvars
  /\ UNCHANGED gvars
  /\ UNCHANGED app

ExportNext == BuildTiledSvg

ExportSpec == ExportInit /\ [][ExportNext]_vars

----------------------------------------------------------------------------
(* Clip specification: clipPrimitiveToConvexPolygon on one primitive and    *)
(* one cell of a square tiling                                              *)

\* every point where the circle meets the line of an edge has whole
\* coordinates (the discriminant is a perfect square)
ExactCircle(center, radius, edges) ==
  \A k \in 1..Len(edges) :
    LET direction == subtract(edges[k].b, edges[k].a)
        fromCenter == subtract(edges[k].a, center)
        discriminant == 4 * dot(fromCenter, direction) * dot(fromCenter, direction)
                          - 4 * dot(direction, direction)
                              * (dot(fromCenter, fromCenter) - radius * radius)
    IN  discriminant < 0 \/ Sqrt(discriminant) * Sqrt(discriminant) = discriminant

\* the twelve points with whole coordinates on a circle of radius 5
Ring ==
  {d \in [x : (0 - 5)..5, y : (0 - 5)..5] : d.x * d.x + d.y * d.y = 5 * 5}

\* lines along the axes and the diagonals between points of a grid,
\* zero-length lines included
ClipLines ==
  LET grid == {Pt(4 * i, 4 * j) : i \in (0 - 3)..3, j \in (0 - 3)..3}
  IN  UNION {{Line("l", a, b, "#111", Undefined) :
                 b \in {q \in grid : q.x = a.x \/ q.y = a.y
                                        \/ Abs(q.x - a.x) = Abs(q.y - a.y)}} :
               a \in grid}

ClipCircles ==
  {Circle("c", Pt(i, j), radius, "#111", Undefined) :
     i \in (0 - 10)..10, j \in {0 - 8, 0 - 3, 0, 3, 5, 8}, radius \in {1, 5}}

\* arcs of radius 5 between the points of the ring, and arcs whose end was
\* dragged off the circle to twice the radius; not the full turn (start =
\* end with largeArc set), whose single piece is kept or dropped by the
\* rounding of its end angle
ClipArcs ==
  LET centers == {Pt(i, j) : i \in {0, 3, 5, 13}, j \in {0, 3, 5, 13}}
      onRing == {Arc("a", c, Pt(c.x + s.x, c.y + s.y), Pt(c.x + e.x, c.y + e.y),
                     large, "#111", Undefined) :
                   c \in centers, s \in Ring, e \in Ring, large \in BOOLEAN}
      dragged == {Arc("a", c, Pt(c.x + 5, c.y), Pt(c.x + 2 * e.x, c.y + 2 * e.y),
                      large, "#111", Undefined) :
                    c \in centers, e \in Ring, large \in BOOLEAN}
  IN  {arc \in onRing \cup dragged : ~resolveArcSweep(arc).full}

ClipInputs ==
  {input \in [primitive : ClipLines \cup ClipCircles \cup ClipArcs,
           size : {3, 8},
           col : 0..(MaxColumns - 1),
           row : 0..(MaxColumns - 1)] :
     LET edges == CellEdges([size |-> input.size], input.col, input.row)
     IN  \/ input.primitive.kind = "line"
         \/ input.primitive.kind = "circle"
              /\ ExactCircle(input.primitive.center, input.primitive.radius, edges)
         \/ input.primitive.kind = "arc"
              /\ ExactCircle(input.primitive.center, 5, edges)}

ClipInit ==
  /\ ReducerInit
  /\ GeometryIdle
  /\ AppIdle
  /\ unit = 1
  /\ pc = "input"
  /\ \E input \in ClipInputs :
       /\ project = [primitives |-> <<input.primitive>>, columns |-> input.col + 1,
                     rows |-> input.row + 1, size |-> input.size]
       /\ cell = [col |-> input.col, row |-> input.row]
  /\ frags = <<>>
  /\ deduped = <<>>
  /\ optimized = <<>>

ClipPrimitive ==
  /\ pc = "input"
  /\ pc' = "done"
  /\ frags' = clipPrimitiveToConvexPolygon(project.primitives[1],
                                           CellEdges(project, cell.col, cell.row))
  /\ UNCHANGED <<unit, project, cell, deduped, optimized>>
  /\ UNCHANGED rvars
  /\ UNCHANGED gvars
  /\ UNCHANGED app

ClipNext == ClipPrimitive

ClipSpec == ClipInit /\ [][ClipNext]_vars

----------------------------------------------------------------------------
(* Clipping and export claims                                               *)

\* the closed square of the cell in column col and row `row`
Box(options, col, row) ==
  [x0 |-> 2 * options.size * col - options.size,
   x1 |-> 2 * options.size * col + options.size,
   y0 |-> 2 * options.size * row - options.size,
   y1 |-> 2 * options.size * row + options.size]

InBox(point, box) ==
  box.x0 <= point.x /\ point.x <= box.x1 /\ box.y0 <= point.y /\ box.y1 >= point.y

\* squares of the least and the greatest distance from a point to the box
MinDistance2(center, box) ==
  LET dx == Max(Max(box.x0 - center.x, center.x - box.x1), 0)
      dy == Max(Max(box.y0 - center.y, center.y - box.y1), 0)
  IN  dx * dx + dy * dy

MaxDistance2(center, box) ==
  LET dx == Max(Abs(center.x - box.x0), Abs(center.x - box.x1))
      dy == Max(Abs(center.y - box.y0), Abs(center.y - box.y1))
  IN  dx * dx + dy * dy

\* no point of the segment is in the box: the two are separated along the
\* x axis, along the y axis, or by the line through the segment
LineOutside(line, box) ==
  LET side(x, y) == cross(subtract(line.b, line.a), subtract(Pt(x, y), line.a))
      sides == {side(box.x0, box.y0), side(box.x1, box.y0),
                side(box.x1, box.y1), side(box.x0, box.y1)}
  IN  \/ Max(line.a.x, line.b.x) < box.x0
      \/ Min(line.a.x, line.b.x) > box.x1
      \/ Max(line.a.y, line.b.y) < box.y0
      \/ Min(line.a.y, line.b.y) > box.y1
      \/ \A v \in sides : v > 0
      \/ \A v \in sides : v < 0

\* no point of the circle is in the box: the disc misses the box, or the
\* box is inside the circle
CircleOutside(center, radius, box) ==
  \/ MinDistance2(center, box) > radius * radius
  \/ MaxDistance2(center, box) < radius * radius

\* no point of the arc is in the box: an arc that meets the box ends in it
\* or passes through its boundary, at points with whole coordinates
ArcOutside(arc, box) ==
  LET sweep == resolveArcSweep(arc)
      onArc(d) ==
        IF sweep.zero THEN d = sweep.start
        ELSE sweep.full \/ d = sweep.start \/ d = sweep.end \/ TravelLess(sweep, d, sweep.end)
  IN  \A x \in box.x0..box.x1, y \in box.y0..box.y1 :
        LET d == subtract(Pt(x, y), sweep.center)
        IN  dot(d, d) = sweep.radius * sweep.radius => ~onArc(d)

EntirelyOutside(primitive, box) ==
  IF primitive.kind = "line" THEN LineOutside(primitive, box)
  ELSE IF primitive.kind = "circle" THEN CircleOutside(primitive.center, primitive.radius, box)
  ELSE ArcOutside(primitive, box)

CircleImages(col) ==
  {[center |-> Pt(project.primitives[p].center.x + getCellOffset(TileOf(project), col, 0).x
                    + periodicNeighborOffsets(TileOf(project))[n].x,
                  project.primitives[p].center.y + getCellOffset(TileOf(project), col, 0).y
                    + periodicNeighborOffsets(TileOf(project))[n].y),
    radius |-> project.primitives[p].radius] :
     p \in {q \in 1..Len(project.primitives) : project.primitives[q].kind = "circle"},
     n \in 1..9}

\* no point of the circle is outside the box
InsideBox(image, box) ==
  /\ box.x0 <= image.center.x - image.radius /\ image.center.x + image.radius <= box.x1
  /\ box.y0 <= image.center.y - image.radius /\ image.center.y + image.radius <= box.y1

\* number of edges of the box that a circle inside it touches
Touches(image, box) ==
  Cardinality({k \in 1..4 :
                 \/ k = 1 /\ image.center.x - image.radius = box.x0
                 \/ k = 2 /\ image.center.x + image.radius = box.x1
                 \/ k = 3 /\ image.center.y - image.radius = box.y0
                 \/ k = 4 /\ image.center.y + image.radius = box.y1})

\* the circle has points inside the open box and points outside the box
Crosses(image, box) ==
  /\ ~InsideBox(image, box)
  /\ MinDistance2(image.center, box) < image.radius * image.radius
  /\ image.radius * image.radius < MaxDistance2(image.center, box)

\* the emitted elements of a kind on the circle of the image
Emitted(kind, image) ==
  {k \in 1..Len(optimized) :
     /\ optimized[k].kind = kind
     /\ optimized[k].center = image.center
     /\ optimized[k].radius = image.radius}

LineKey(fragment) ==
  <<{quantizedPoint(fragment.a), quantizedPoint(fragment.b)},
    fragment.color, quantize(fragment.strokeWidth, StrokeDen)>>

LinesOf(fragments) == SelectSeq(fragments, LAMBDA f : f.kind = "line")

LinePaths == SelectSeq(optimized, LAMBDA f : f.kind = "line-path")

\* every primitive of the project is a line drawn on the right edge of the
\* tile, the edge shared by the two cells of a pattern of two columns
OnlyBoundaryLines ==
  \A p \in 1..Len(project.primitives) :
    /\ project.primitives[p].kind = "line"
    /\ project.primitives[p].a.x = project.size
    /\ project.primitives[p].b.x = project.size
    /\ {project.primitives[p].a.y, project.primitives[p].b.y} = {0 - 4, 4}

ImageFragments(primitive, col, i, j) ==
  LET tile == TileOf(project)
      cellOffset == getCellOffset(tile, col, 0)
      u == tileBasisVectors(tile).u
      v == tileBasisVectors(tile).v
  IN  clipPrimitiveToConvexPolygon(
        translatePrimitive(primitive, Pt(cellOffset.x + i * u.x + j * v.x,
                                         cellOffset.y + i * u.y + j * v.y)),
        CellEdges(project, col, 0))

\* C1: the export is seamless: whatever part of a lattice image of a
\* primitive (the primitive moved by i * u + j * v) lies in a cell of the
\* pattern is among the clipped fragments.
C1_Seamless ==
  pc = "done" =>
    \A p \in 1..Len(project.primitives), col \in 0..(project.columns - 1) :
      \A i \in (0 - 3)..3, j \in (0 - 3)..3 :
        Range(ImageFragments(project.primitives[p], col, i, j)) \subseteq Range(frags)

----------------------------------------------------------------------------
(* geometry/intersections.ts                                                *)

\* Coordinates of primitives are integers.  A computed point is kept as
\* the exact fraction (x / d, y / d) in lowest terms with d > 0, so two
\* computations of the same point give the same record.
RECURSIVE Gcd(_, _)
Gcd(m, n) == IF n = 0 THEN m ELSE Gcd(n, m % n)

RatPoint(xn, yn, den) ==
  LET reduced(sign, g) ==
        [x |-> (sign * xn) \div g, y |-> (sign * yn) \div g, d |-> (sign * den) \div g]
  IN  reduced(IF den < 0 THEN 0 - 1 ELSE 1, Gcd(Gcd(Abs(xn), Abs(yn)), Abs(den)))

\* pointKey: toFixed(4) of both coordinates (the nearest multiple of
\* 0.0001, the larger one of two equally near)
pointKey(point) ==
  <<RoundDiv(point.x * 10 ^ 4, point.d), RoundDiv(point.y * 10 ^ 4, point.d)>>

\* lineLineIntersectionSegment whose range test reads t only
lineLineIntersectionSegment_OnFirst(a, b) ==
  LET p == a.a
      r == subtract(a.b, a.a)
      s == subtract(b.b, b.a)
      qmp == subtract(b.a, a.a)
      at(t) ==
        IF t.n < 0 \/ t.n > t.d THEN <<>>
        ELSE <<RatPoint(p.x * t.d + r.x * t.n, p.y * t.d + r.y * t.n, t.d)>>
  IN  IF cross(r, s) = 0 THEN <<>>
      ELSE at(Frac(cross(qmp, s), cross(r, s)))

\* t and u are fractions of integers below 10^6 in absolute value, so
\* t < -EPSILON is t < 0 and t > 1 + EPSILON is t > 1
lineLineIntersectionSegment(a, b) ==
  LET p == a.a
      r == subtract(a.b, a.a)
      s == subtract(b.b, b.a)
      qmp == subtract(b.a, a.a)
      at(t, u) ==
        IF t.n < 0 \/ t.n > t.d \/ u.n < 0 \/ u.n > u.d THEN <<>>
        ELSE <<RatPoint(p.x * t.d + r.x * t.n, p.y * t.d + r.y * t.n, t.d)>>
  IN  IF cross(r, s) = 0 THEN <<>>
      ELSE at(Frac(cross(qmp, s), cross(r, s)), Frac(cross(qmp, r), cross(r, s)))

\* The discriminant is an integer, so the tests against -EPSILON and
\* EPSILON are tests of its sign.  Its root is exact when it is a perfect
\* square; t = n / (2 * a).  A line of zero length has a = b = 0 and
\* discriminant 0: t = -0 / 0 is NaN and fails the range test.
lineCircleIntersections(line, circle) ==
  LET d == subtract(line.b, line.a)
      f == subtract(line.a, circle.center)
      a == dot(d, d)
      b == 2 * dot(f, d)
      c == dot(f, f) - circle.radius * circle.radius
      pointAt(n) ==
        IF n >= 0 /\ n <= 2 * a
        THEN <<RatPoint(line.a.x * 2 * a + d.x * n, line.a.y * 2 * a + d.y * n, 2 * a)>>
        ELSE <<>>
      roots(discriminant, sqrt) ==
        IF discriminant < 0 THEN <<>>
        ELSE IF discriminant = 0 THEN (IF a = 0 THEN <<>> ELSE pointAt(0 - b))
        ELSE pointAt(0 - b + sqrt) \o pointAt(0 - b - sqrt)
  IN  roots(b * b - 4 * a * c, Sqrt(b * b - 4 * a * c))

\* With D2 = d * d, K = a.radius^2 - b.radius^2 + D2 and
\* disc = 4 * D2 * a.radius^2 - K^2:  p2 = K / (2 d), h2 = disc / (4 D2),
\* base = a.center + delta * K / (2 D2), and the two points are
\* base +- (-delta.y, delta.x) * sqrt(disc) / (2 D2).  For integers the
\* tests with EPSILON are the exact comparisons of the squares.
circleCircleIntersections(a, b) ==
  LET delta == subtract(b.center, a.center)
      D2 == dot(delta, delta)
      K == a.radius * a.radius - b.radius * b.radius + D2
      points(disc, sqrt) ==
        IF disc < 0 THEN <<>>
        ELSE IF disc = 0
          THEN <<RatPoint(a.center.x * 2 * D2 + delta.x * K,
                          a.center.y * 2 * D2 + delta.y * K, 2 * D2)>>
        ELSE <<RatPoint(a.center.x * 2 * D2 + delta.x * K - delta.y * sqrt,
                        a.center.y * 2 * D2 + delta.y * K + delta.x * sqrt, 2 * D2),
               RatPoint(a.center.x * 2 * D2 + delta.x * K + delta.y * sqrt,
                        a.center.y * 2 * D2 + delta.y * K - delta.x * sqrt, 2 * D2)>>
  IN  IF D2 = 0 THEN <<>>
      ELSE IF a.radius + b.radius < 0
              \/ D2 > (a.radius + b.radius) * (a.radius + b.radius) THEN <<>>
      ELSE IF D2 < (a.radius - b.radius) * (a.radius - b.radius) THEN <<>>
      ELSE points(4 * D2 * a.radius * a.radius - K * K,
                  Sqrt(4 * D2 * a.radius * a.radius - K * K))

\* arcRadius(normalizeArc(arc))
circleFromArc(arc) ==
  LET circleOf(normalized) ==
        [id |-> normalized.id, kind |-> "circle", center |-> normalized.center,
         radius |-> Sqrt(dot(subtract(normalized.start, normalized.center),
                             subtract(normalized.start, normalized.center))),
         color |-> normalized.color, strokeWidth |-> normalized.strokeWidth]
  IN  circleOf(normalizeArc(arc))

\* arc.ts: 0 <= traveled <= delta, where delta is the travel to the end of
\* the sweep, or the whole turn when start = end with largeArc set
isPointOnArcSweep(point, arc) ==
  LET on(sweep, d) ==
        \/ sweep.full
        \/ cross(d, sweep.end) = 0 /\ dot(d, sweep.end) > 0
        \/ TravelLess(sweep, d, sweep.end)
  IN  on(resolveArcSweep(arc),
         Pt(point.x - arc.center.x * point.d, point.y - arc.center.y * point.d))

filterPointsOnArc(points, arc) ==
  SelectSeq(points, LAMBDA point : isPointOnArcSweep(point, arc))

\* the branch of intersections for one pair
PairIntersections(a, b) ==
  CASE a.kind = "line" /\ b.kind = "line" -> lineLineIntersectionSegment(a, b)
    [] a.kind = "line" /\ b.kind = "circle" -> lineCircleIntersections(a, b)
    [] a.kind = "circle" /\ b.kind = "line" -> lineCircleIntersections(b, a)
    [] a.kind = "line" /\ b.kind = "arc" ->
         filterPointsOnArc(lineCircleIntersections(a, circleFromArc(b)), b)
    [] a.kind = "arc" /\ b.kind = "line" ->
         filterPointsOnArc(lineCircleIntersections(b, circleFromArc(a)), a)
    [] a.kind = "circle" /\ b.kind = "circle" -> circleCircleIntersections(a, b)
    [] a.kind = "circle" /\ b.kind = "arc" ->
         filterPointsOnArc(circleCircleIntersections(a, circleFromArc(b)), b)
    [] a.kind = "arc" /\ b.kind = "circle" ->
         filterPointsOnArc(circleCircleIntersections(circleFromArc(a), b), a)
    [] a.kind = "arc" /\ b.kind = "arc" ->
         SelectSeq(circleCircleIntersections(circleFromArc(a), circleFromArc(b)),
                   LAMBDA point : isPointOnArcSweep(point, a) /\ isPointOnArcSweep(point, b))
    [] OTHER -> <<>>

\* the Map keyed by pointKey: a key keeps the place of its first point and
\* the value of its last
DedupByKey(results) ==
  LET firsts == SelectSeq([i \in 1..Len(results) |-> i],
                          LAMBDA i : \A k \in 1..(i - 1) :
                                       pointKey(results[k]) # pointKey(results[i]))
      lastOf(i) == CHOOSE k \in i..Len(results) :
                     /\ pointKey(results[k]) = pointKey(results[i])
                     /\ \A m \in (k + 1)..Len(results) :
                          pointKey(results[m]) # pointKey(results[i])
  IN  [n \in 1..Len(firsts) |-> results[lastOf(firsts[n])]]

intersections(primitives) ==
  LET RECURSIVE Collect(_, _)
      Collect(i, j) ==
        IF i > Len(primitives) THEN <<>>
        ELSE IF j > Len(primitives) THEN Collect(i + 1, i + 2)
        ELSE PairIntersections(primitives[i], primitives[j]) \o Collect(i, j + 1)
  IN  DedupByKey(Collect(1, 2))

\* Inputs: segments, circles and arcs whose meeting points are fractions
\* (every discriminant a perfect square), among them a line of zero
\* length, parallel lines, circles of radius 0 and -5 and circles with a
\* common centre.
IntersectLines ==
  {Line("l", ends[1], ends[2], "#111", Undefined) :
     ends \in {<<Pt(0 - 10, 0), Pt(10, 0)>>, <<Pt(10, 0), Pt(0 - 10, 0)>>,
               <<Pt(0, 0 - 10), Pt(0, 10)>>, <<Pt(0 - 10, 0 - 10), Pt(10, 10)>>,
               <<Pt(0 - 10, 5), Pt(10, 5)>>, <<Pt(0, 0), Pt(10, 0)>>,
               <<Pt(6, 0), Pt(10, 0)>>, <<Pt(3, 0 - 10), Pt(3, 10)>>,
               <<Pt(4, 0), Pt(4, 10)>>, <<Pt(0 - 7, 1), Pt(7, 0 - 1)>>,
               <<Pt(0 - 1, 7), Pt(9, 2)>>, <<Pt(3, 4), Pt(3, 4)>>,
               <<Pt(0, 0), Pt(0, 0)>>}}

IntersectCircles ==
  {Circle("c", Pt(0, 0), radius, "#111", Undefined) : radius \in {5, 0, 0 - 5, 10}}
  \cup {Circle("c", center, 5, "#111", Undefined) :
          center \in {Pt(8, 0), Pt(6, 0), Pt(7, 1), Pt(10, 0), Pt(20, 0)}}
  \cup {Circle("c", Pt(5, 0), 10, "#111", Undefined),
        Circle("c", Pt(5, 0), 0, "#111", Undefined),
        Circle("c", Pt(8, 0), 0 - 5, "#111", Undefined)}

IntersectArcs ==
  {Arc("a", c, Pt(c.x + s.x, c.y + s.y), Pt(c.x + e.x, c.y + e.y), large, "#111", Undefined) :
     c \in {Pt(0, 0), Pt(8, 0)},
     s \in {Pt(5, 0), Pt(0, 0 - 5), Pt(0 - 4, 3)},
     e \in {Pt(5, 0), Pt(0, 5), Pt(4, 0 - 3), Pt(0 - 3, 0 - 4)},
     large \in BOOLEAN}

IsSquare(n) == n < 0 \/ Sqrt(n) * Sqrt(n) = n

CircleOf(primitive) == IF primitive.kind = "arc" THEN circleFromArc(primitive) ELSE primitive

ExactPair(a, b) ==
  LET lineCircle(line, circle) ==
        LET d == subtract(line.b, line.a)
            f == subtract(line.a, circle.center)
        IN  IsSquare(4 * dot(f, d) * dot(f, d)
                       - 4 * dot(d, d) * (dot(f, f) - circle.radius * circle.radius))
      circleCircle(p, q) ==
        LET delta == subtract(q.center, p.center)
            D2 == dot(delta, delta)
            K == p.radius * p.radius - q.radius * q.radius + D2
        IN  IsSquare(4 * D2 * p.radius * p.radius - K * K)
  IN  CASE a.kind = "line" /\ b.kind = "line" -> TRUE
        [] a.kind = "line" -> lineCircle(a, CircleOf(b))
        [] b.kind = "line" -> lineCircle(b, CircleOf(a))
        [] OTHER -> circleCircle(CircleOf(a), CircleOf(b))

IntersectInit ==
  /\ ReducerInit
  /\ unit = 1
  /\ pc = "input"
  /\ project = NoProject
  /\ cell = NoCell
  /\ frags = <<>>
  /\ deduped = <<>>
  /\ optimized = <<>>
  /\ \E a \in IntersectLines \cup IntersectCircles \cup IntersectArcs,
        b \in IntersectLines \cup IntersectCircles \cup IntersectArcs :
       /\ ExactPair(a, b)
       /\ call = [name |-> "intersections", primitives |-> <<a, b>>]
  /\ result = <<>>
  /\ AppIdle

Intersections ==
  /\ pc = "input"
  /\ call.name = "intersections"
  /\ pc' = "done"
  /\ result' = intersections(call.primitives)
  /\ UNCHANGED <<unit, project, cell, frags, deduped, optimized, call, app>>
  /\ UNCHANGED rvars

IntersectNext == Intersections

IntersectSpec == IntersectInit /\ [][IntersectNext]_vars

\* C16: intersections of two primitives gives the same set of points in
\* either order of the two.
C16_Symmetric ==
  (pc = "done" /\ call.name = "intersections") =>
    Range(result) = Range(intersections(<<call.primitives[2], call.primitives[1]>>))

C16_Witness ==
  /\ pc = "done"
  /\ call.name = "intersections"
  /\ call.primitives[1].kind = "arc"
  /\ call.primitives[2].kind = "circle"
  /\ Len(result) = 1
  /\ Len(circleCircleIntersections(circleFromArc(call.primitives[1]), call.primitives[2])) = 2

Degenerate(primitive) ==
  \/ primitive.kind = "line" /\ primitive.a = primitive.b
  \/ primitive.kind = "circle" /\ primitive.radius <= 0

DegeneratePair(a, b) ==
  \/ Degenerate(a)
  \/ Degenerate(b)
  \/ a.kind = "line" /\ b.kind = "line"
       /\ cross(subtract(a.b, a.a), subtract(b.b, b.a)) = 0
  \/ a.kind # "line" /\ b.kind # "line" /\ a.center = b.center

\* C17: when one of the two primitives is a line of zero length or a circle
\* of zero or negative radius, or the two are parallel lines or have a
\* common centre, intersections returns no points.
C17_DegenerateGivesNoPoints ==
  (pc = "done" /\ call.name = "intersections"
     /\ DegeneratePair(call.primitives[1], call.primitives[2]))
    => result = <<>>

----------------------------------------------------------------------------
(* geometry/snapping.ts and the line-end resolution of EditorCanvas.tsx     *)

\* Raw points, candidates and segment ends have integer coordinates;
\* computed points are exact fractions (RatPoint).  Distances are compared
\* by their squares, which is the same comparison for these magnitudes.
Null == [kind |-> "null"]

Rat(point) == RatPoint(point.x, point.y, 1)

\* distance(a, b)^2
Distance2(a, b) == dot(subtract(a, b), subtract(a, b))

\* distance(raw, computed)^2 * computed.d^2
RatDistance2(raw, computed) ==
  (computed.x - raw.x * computed.d) * (computed.x - raw.x * computed.d)
    + (computed.y - raw.y * computed.d) * (computed.y - raw.y * computed.d)

\* getSnapPoint that also takes a candidate at exactly the tolerance
getSnapPoint_Inclusive(rawPoint, context) ==
  LET RECURSIVE Scan(_, _)
      Scan(i, best) ==
        IF i > Len(context.points) THEN best
        ELSE IF /\ context.tolerance > 0
                /\ Distance2(rawPoint, context.points[i])
                     <= context.tolerance * context.tolerance
                /\ (best = Null \/ Distance2(rawPoint, context.points[i])
                                     < Distance2(rawPoint, best))
          THEN Scan(i + 1, context.points[i])
          ELSE Scan(i + 1, best)
  IN  Scan(1, Null)

getSnapPoint(rawPoint, context) ==
  LET RECURSIVE Scan(_, _)
      Scan(i, best) ==
        IF i > Len(context.points) THEN best
        ELSE IF /\ context.tolerance > 0
                /\ Distance2(rawPoint, context.points[i])
                     < context.tolerance * context.tolerance
                /\ (best = Null \/ Distance2(rawPoint, context.points[i])
                                     < Distance2(rawPoint, best))
          THEN Scan(i + 1, context.points[i])
          ELSE Scan(i + 1, best)
  IN  Scan(1, Null)

\* dot(ab, ab) is an integer: below 1e-6 means 0; t is clamped to [0, 1]
closestPointOnSegment(point, segment) ==
  LET ab == subtract(segment.b, segment.a)
      ap == subtract(point, segment.a)
      denom == dot(ab, ab)
      at(n) == RatPoint(segment.a.x * denom + ab.x * n,
                        segment.a.y * denom + ab.y * n, denom)
  IN  IF denom = 0 THEN Null
      ELSE at(Min(denom, Max(0, dot(ap, ab))))

getSnapPointOnSegments(rawPoint, segments, tolerance) ==
  LET closer(projected, best) ==
        /\ projected # Null
        /\ tolerance > 0
        /\ RatDistance2(rawPoint, projected) < tolerance * tolerance * projected.d * projected.d
        /\ (best = Null
              \/ RatDistance2(rawPoint, projected) * best.d * best.d
                   < RatDistance2(rawPoint, best) * projected.d * projected.d)
      RECURSIVE Scan(_, _)
      Scan(i, best) ==
        IF i > Len(segments) THEN best
        ELSE IF closer(closestPointOnSegment(rawPoint, segments[i]), best)
          THEN Scan(i + 1, closestPointOnSegment(rawPoint, segments[i]))
          ELSE Scan(i + 1, best)
  IN  Scan(1, Null)

\* The loop of getLinePassThroughSnap: bestPoint.  With L2 = length^2:
\* along = dot / L2, perpDistance = |cross| / length, and pointDistance <=
\* length + tolerance compares integers when length is an integer.
bestPassThroughPoint(start, rawEnd, snapPoints, tolerance) ==
  LET direction == subtract(rawEnd, start)
      L2 == dot(direction, direction)
      length == Sqrt(L2)
      eligible(fromStart) ==
        /\ ~(20 * dot(fromStart, direction) <= L2)
        /\ ~(50 * dot(fromStart, direction) >= 49 * L2)
        /\ tolerance >= 0
        /\ cross(direction, fromStart) * cross(direction, fromStart)
             <= tolerance * tolerance * L2
        /\ dot(fromStart, fromStart) <= (length + tolerance) * (length + tolerance)
      RECURSIVE Scan(_, _)
      Scan(i, best) ==
        IF i > Len(snapPoints) THEN best
        ELSE IF /\ eligible(subtract(snapPoints[i], start))
                /\ (best = Null
                      \/ Abs(cross(direction, subtract(snapPoints[i], start)))
                           < Abs(cross(direction, subtract(best, start))))
          THEN Scan(i + 1, snapPoints[i])
          ELSE Scan(i + 1, best)
  IN  IF L2 = 0 THEN Null ELSE Scan(1, Null)

\* start + axis * (length / axisLength), exact when both lengths are
\* integers
getLinePassThroughSnap(start, rawEnd, snapPoints, tolerance) ==
  LET length == Sqrt(Distance2(rawEnd, start))
      rescaled(axis, axisLength) ==
        IF axisLength = 0 THEN Null
        ELSE RatPoint(start.x * axisLength + axis.x * length,
                      start.y * axisLength + axis.y * length, axisLength)
      through(bestPoint) ==
        IF bestPoint = Null THEN Null
        ELSE rescaled(subtract(bestPoint, start), Sqrt(Distance2(bestPoint, start)))
  IN  through(bestPassThroughPoint(start, rawEnd, snapPoints, tolerance))

\* r is taken times directionEnd.d, which changes neither the signs of t
\* and u, nor u, nor the candidate start + r * t
getDirectionalSnapOnSegments(start, directionEnd, rawEnd, segments, tolerance) ==
  LET r == Pt(directionEnd.x - start.x * directionEnd.d,
              directionEnd.y - start.y * directionEnd.d)
      crossing(segment) ==
        LET s == subtract(segment.b, segment.a)
            qp == subtract(segment.a, start)
            at(t, u) ==
              IF t.n < 0 \/ u.n < 0 \/ u.n > u.d THEN Null
              ELSE RatPoint(start.x * t.d + r.x * t.n, start.y * t.d + r.y * t.n, t.d)
        IN  IF cross(r, s) = 0 THEN Null
            ELSE at(Frac(cross(qp, s), cross(r, s)), Frac(cross(qp, r), cross(r, s)))
      closer(candidate, best) ==
        /\ candidate # Null
        /\ tolerance >= 0
        /\ RatDistance2(rawEnd, candidate) <= tolerance * tolerance * candidate.d * candidate.d
        /\ (best = Null
              \/ RatDistance2(rawEnd, candidate) * best.d * best.d
                   < RatDistance2(rawEnd, best) * candidate.d * candidate.d)
      RECURSIVE Scan(_, _)
      Scan(i, best) ==
        IF i > Len(segments) THEN best
        ELSE IF closer(crossing(segments[i]), best)
          THEN Scan(i + 1, crossing(segments[i]))
          ELSE Scan(i + 1, best)
  IN  IF r = Pt(0, 0) THEN Null ELSE Scan(1, Null)

\* tile.size * 0.08 and tile.size * 0.05
snapTolerance(size) == (size * 8) \div 100

linePassTolerance(size) == (size * 5) \div 100

\* resolveLineEndWithPoints that tries the segments before the pass-through
resolveLineEndWithPoints_SegmentsFirst(size, start, raw, points, segments) ==
  LET endpointSnap == getSnapPoint(raw, [points |-> points, tolerance |-> snapTolerance(size)])
      throughSnap == getLinePassThroughSnap(start, raw, points, linePassTolerance(size))
      segmentSnap == getSnapPointOnSegments(raw, segments, snapTolerance(size))
      directional(through) ==
        LET directionalSegmentSnap ==
              getDirectionalSnapOnSegments(start, through, raw, segments, snapTolerance(size))
        IN  IF directionalSegmentSnap # Null THEN directionalSegmentSnap ELSE through
  IN  IF endpointSnap # Null THEN Rat(endpointSnap)
      ELSE IF segmentSnap # Null THEN segmentSnap
      ELSE IF throughSnap # Null THEN directional(throughSnap)
      ELSE Rat(raw)

resolveLineEndWithPoints(size, start, raw, points, segments) ==
  LET endpointSnap == getSnapPoint(raw, [points |-> points, tolerance |-> snapTolerance(size)])
      throughSnap == getLinePassThroughSnap(start, raw, points, linePassTolerance(size))
      segmentSnap == getSnapPointOnSegments(raw, segments, snapTolerance(size))
      directional(through) ==
        LET directionalSegmentSnap ==
              getDirectionalSnapOnSegments(start, through, raw, segments, snapTolerance(size))
        IN  IF directionalSegmentSnap # Null THEN directionalSegmentSnap ELSE through
  IN  IF endpointSnap # Null THEN Rat(endpointSnap)
      ELSE IF throughSnap # Null THEN directional(throughSnap)
      ELSE IF segmentSnap # Null THEN segmentSnap
      ELSE Rat(raw)

\* Inputs.  The line starts at the origin; raw ends and candidates are at
\* integer distances from it.
SnapCandidates ==
  {Pt(50, 50), Pt(53, 54), Pt(47, 50), Pt(50, 45), Pt(100, 100)}

SnapRawPoints == {Pt(49, 51), Pt(50, 50), Pt(0, 0)}

SnapTolerances == {0, 1, 2, 5}

LineStart == Pt(0, 0)

RawEnds == {Pt(50, 0), Pt(48, 14), Pt(30, 40), Pt(25, 0), Pt(4, 0), Pt(0, 0)}

ThroughCandidates ==
  {Pt(12, 5), Pt(24, 7), Pt(24, 10), Pt(3, 4), Pt(12, 9), Pt(20, 0), Pt(48, 20)}

PassTolerances == {0, 1, 5, 10}

SnapSegments ==
  {[a |-> Pt(45, 0 - 10), b |-> Pt(45, 40)], [a |-> Pt(0 - 100, 100), b |-> Pt(100, 100)],
   [a |-> Pt(40, 20), b |-> Pt(60, 12)], [a |-> Pt(7, 7), b |-> Pt(7, 7)]}

SnapCalls ==
  [name : {"getSnapPoint"}, rawPoint : SnapRawPoints,
   points : {<<>>} \cup SeqsUpTo(SnapCandidates, 2), tolerance : SnapTolerances]
  \cup [name : {"getLinePassThroughSnap"}, start : {LineStart}, rawEnd : RawEnds,
        snapPoints : {<<>>} \cup SeqsUpTo(ThroughCandidates, 2),
        tolerance : PassTolerances]
  \cup [name : {"resolveLineEndWithPoints"}, size : {100}, start : {LineStart},
        raw : RawEnds \cup {Pt(12, 9), Pt(47, 0)},
        points : {<<>>} \cup SeqsUpTo(ThroughCandidates, 2),
        segments : {<<>>} \cup SeqsUpTo(SnapSegments, 1)]

SnapInit ==
  /\ ReducerInit
  /\ unit = 1
  /\ pc = "input"
  /\ project = NoProject
  /\ cell = NoCell
  /\ frags = <<>>
  /\ deduped = <<>>
  /\ optimized = <<>>
  /\ call \in SnapCalls
  /\ result = <<>>
  /\ AppIdle

GetSnapPoint ==
  /\ pc = "input"
  /\ call.name = "getSnapPoint"
  /\ pc' = "done"
  /\ result' = getSnapPoint(call.rawPoint, [points |-> call.points, tolerance |-> call.tolerance])
  /\ UNCHANGED <<unit, project, cell, frags, deduped, optimized, call, app>>
  /\ UNCHANGED rvars

GetLinePassThroughSnap ==
  /\ pc = "input"
  /\ call.name = "getLinePassThroughSnap"
  /\ pc' = "done"
  /\ result' = getLinePassThroughSnap(call.start, call.rawEnd, call.snapPoints, call.tolerance)
  /\ UNCHANGED <<unit, project, cell, frags, deduped, optimized, call, app>>
  /\ UNCHANGED rvars

ResolveLineEnd ==
  /\ pc = "input"
  /\ call.name = "resolveLineEndWithPoints"
  /\ pc' = "done"
  /\ result' = resolveLineEndWithPoints(call.size, call.start, call.raw, call.points,
                                        call.segments)
  /\ UNCHANGED <<unit, project, cell, frags, deduped, optimized, call, app>>
  /\ UNCHANGED rvars

SnapNext == GetSnapPoint \/ GetLinePassThroughSnap \/ ResolveLineEnd

SnapSpec == SnapInit /\ [][SnapNext]_vars

\* C18: getSnapPoint returns null exactly when no candidate is nearer to
\* the raw point than the tolerance; otherwise it returns a candidate that
\* is nearer than the tolerance and at least as near as every candidate.
C18_NearestWithinTolerance ==
  (pc = "done" /\ call.name = "getSnapPoint") =>
    LET near == {i \in 1..Len(call.points) :
                   Distance2(call.rawPoint, call.points[i]) < call.tolerance * call.tolerance}
    IN  IF near = {} THEN result = Null
        ELSE /\ result # Null
             /\ \E i \in near : result = call.points[i]
             /\ \A i \in 1..Len(call.points) :
                  Distance2(call.rawPoint, result) <= Distance2(call.rawPoint, call.points[i])

C18_Witness ==
  /\ pc = "done"
  /\ call.name = "getSnapPoint"
  /\ call.rawPoint = Pt(49, 51)
  /\ call.tolerance = 5
  /\ call.points = <<Pt(47, 50), Pt(50, 50)>>
  /\ result = Pt(50, 50)

\* the snaps that resolveLineEndWithPoints chooses among
EndpointSnapOf(c) ==
  getSnapPoint(c.raw, [points |-> c.points, tolerance |-> snapTolerance(c.size)])

ThroughSnapOf(c) ==
  getLinePassThroughSnap(c.start, c.raw, c.points, linePassTolerance(c.size))

DirectionalSnapOf(c) ==
  IF ThroughSnapOf(c) = Null THEN Null
  ELSE getDirectionalSnapOnSegments(c.start, ThroughSnapOf(c), c.raw, c.segments,
                                    snapTolerance(c.size))

SegmentSnapOf(c) == getSnapPointOnSegments(c.raw, c.segments, snapTolerance(c.size))

\* C19: the resolved line end is the endpoint snap when there is one;
\* failing that the directional segment snap of the pass-through snap, or
\* the pass-through snap itself when there is no directional one; failing
\* that the segment-projection snap; failing all of them the raw point.
C19_SnapPriority ==
  (pc = "done" /\ call.name = "resolveLineEndWithPoints") =>
    /\ EndpointSnapOf(call) # Null => result = Rat(EndpointSnapOf(call))
    /\ (EndpointSnapOf(call) = Null /\ ThroughSnapOf(call) # Null) =>
         result = IF DirectionalSnapOf(call) # Null THEN DirectionalSnapOf(call)
                  ELSE ThroughSnapOf(call)
    /\ (EndpointSnapOf(call) = Null /\ ThroughSnapOf(call) = Null
          /\ SegmentSnapOf(call) # Null) => result = SegmentSnapOf(call)
    /\ (EndpointSnapOf(call) = Null /\ ThroughSnapOf(call) = Null
          /\ SegmentSnapOf(call) = Null) => result = Rat(call.raw)

\* a pass-through snap is returned although a different segment-projection
\* snap exists as well
C19_Witness ==
  /\ pc = "done"
  /\ call.name = "resolveLineEndWithPoints"
  /\ EndpointSnapOf(call) = Null
  /\ ThroughSnapOf(call) # Null
  /\ DirectionalSnapOf(call) = Null
  /\ SegmentSnapOf(call) # Null
  /\ SegmentSnapOf(call) # ThroughSnapOf(call)
  /\ result = ThroughSnapOf(call)

\* C20: when getLinePassThroughSnap returns an endpoint, the selected snap
\* point lies on the segment from start to that endpoint.
C20_PassesThroughSnapPoint ==
  (pc = "done" /\ call.name = "getLinePassThroughSnap" /\ result # Null) =>
    LET onSegment(v, e) ==
          /\ cross(v, e) = 0
          /\ dot(v, e) >= 0
          /\ dot(v, e) * result.d <= dot(e, e)
    IN  onSegment(subtract(bestPassThroughPoint(call.start, call.rawEnd, call.snapPoints,
                                                call.tolerance), call.start),
                  Pt(result.x - call.start.x * result.d,
                     result.y - call.start.y * result.d))

----------------------------------------------------------------------------
(* geometry/transforms.ts and geometry/arc.ts: translation and arcs         *)

\* arcRadius: distance(center, start)
arcRadius(arc) == Sqrt(Distance2(arc.center, arc.start))

\* The path data "M start A r r 0 largeArc sweep end" as the record of its
\* numbers.  The sweep flag is resolveArcSweep(normalized).clockwise of
\* arc.ts: the minor-arc direction of the geometry, reversed for largeArc.
arcPathD(arc) ==
  LET pathOf(normalized) ==
        [start |-> normalized.start,
         radius |-> arcRadius(normalized),
         largeArc |-> IF normalized.largeArc THEN 1 ELSE 0,
         sweep |-> IF resolveArcSweep(normalized).clockwise THEN 1 ELSE 0,
         end |-> normalized.end]
  IN  pathOf(normalizeArc(arc))

\* Inputs: arcs around two centers whose start and end lie at distance 5 or
\* 10 from the center in one of four directions, with either value of the
\* two stored flags; lines, circles and offsets of the tiled export.
ArcDirections == {Pt(5, 0), Pt(3, 4), Pt(0 - 4, 3), Pt(0, 0 - 5)}

StoredArcs ==
  {[id |-> "a", kind |-> "arc", center |-> c,
    start |-> Pt(c.x + m * s.x, c.y + m * s.y),
    end |-> Pt(c.x + n * e.x, c.y + n * e.y),
    clockwise |-> clockwise, largeArc |-> largeArc,
    color |-> "#111", strokeWidth |-> Undefined] :
     c \in {Pt(0, 0), Pt(3, 0 - 2)}, s \in ArcDirections, e \in ArcDirections,
     m \in {1, 2}, n \in {1, 2}, clockwise \in BOOLEAN, largeArc \in BOOLEAN}

TranslateInputs ==
  {Line("l", Pt(0 - 4, 0), Pt(4, 3), "#111", Undefined),
   Line("m", Pt(8, 8), Pt(8, 8), "#1d4ed8", 2),
   Circle("c", Pt(3, 0), 5, "#111", Undefined),
   Circle("d", Pt(0, 0), 1, "#1d4ed8", 2)}
  \cup {arc \in StoredArcs : arc.start.x = arc.center.x + 5 /\ arc.largeArc}

TranslateOffsets == {Pt(0, 0), Pt(16, 0), Pt(0 - 16, 16), Pt(3, 0 - 2)}

TransformCalls ==
  [name : {"translatePrimitive"}, primitive : TranslateInputs, offset : TranslateOffsets]
  \cup [name : {"normalizeArc", "arcPathD"}, arc : StoredArcs]

TransformInit ==
  /\ ReducerInit
  /\ unit = 1
  /\ pc = "input"
  /\ project = NoProject
  /\ cell = NoCell
  /\ frags = <<>>
  /\ deduped = <<>>
  /\ optimized = <<>>
  /\ call \in TransformCalls
  /\ result = <<>>
  /\ AppIdle

TranslatePrimitive ==
  /\ pc = "input"
  /\ call.name = "translatePrimitive"
  /\ pc' = "done"
  /\ result' = translatePrimitive(call.primitive, call.offset)
  /\ UNCHANGED <<unit, project, cell, frags, deduped, optimized, call, app>>
  /\ UNCHANGED rvars

NormalizeArc ==
  /\ pc = "input"
  /\ call.name = "normalizeArc"
  /\ pc' = "done"
  /\ result' = normalizeArc(call.arc)
  /\ UNCHANGED <<unit, project, cell, frags, deduped, optimized, call, app>>
  /\ UNCHANGED rvars

ArcPathD ==
  /\ pc = "input"
  /\ call.name = "arcPathD"
  /\ pc' = "done"
  /\ result' = arcPathD(call.arc)
  /\ UNCHANGED <<unit, project, cell, frags, deduped, optimized, call, app>>
  /\ UNCHANGED rvars

TransformNext == TranslatePrimitive \/ NormalizeArc \/ ArcPathD

TransformSpec == TransformInit /\ [][TransformNext]_vars

Shift(point, offset) == Pt(point.x + offset.x, point.y + offset.y)

\* C21: translatePrimitive returns a primitive of the same kind whose
\* point-valued fields (a and b of a line, center of a circle, center,
\* start and end of an arc) are those of the input moved by the offset, and
\* whose other fields are those of the input.
C21_TranslateShiftsEveryPoint ==
  (pc = "done" /\ call.name = "translatePrimitive") =>
    LET points == CASE call.primitive.kind = "line" -> {"a", "b"}
                    [] call.primitive.kind = "circle" -> {"center"}
                    [] OTHER -> {"center", "start", "end"}
    IN  /\ DOMAIN result = DOMAIN call.primitive
        /\ \A field \in DOMAIN call.primitive :
             result[field] = IF field \in points
                               THEN Shift(call.primitive[field], call.offset)
                               ELSE call.primitive[field]

\* C22: after normalizeArc the start and the end both lie at the larger of
\* the two distances that the stored start and end had from the center.
C22_NormalizeToLargerRadius ==
  (pc = "done" /\ call.name = "normalizeArc") =>
    LET larger == Max(Distance2(call.arc.center, call.arc.start),
                      Distance2(call.arc.center, call.arc.end))
    IN  /\ Distance2(result.center, result.start) = larger
        /\ Distance2(result.center, result.end) = larger

\* C23: the path drawn for an arc depends on its stored clockwise flag: the
\* same arc with the flag reversed is drawn with a different path, and is
\* clipped with the opposite sweep direction.
C23_StoredFlagsDecideSweep ==
  (pc = "done" /\ call.name = "arcPathD") =>
    /\ result # arcPathD([call.arc EXCEPT !.clockwise = ~call.arc.clockwise])
    /\ resolveArcSweep(call.arc).clockwise
         # resolveArcSweep([call.arc EXCEPT !.clockwise = ~call.arc.clockwise]).clockwise

----------------------------------------------------------------------------
(* features/persistence/projectStorage.ts                                   *)

\* A JSON text is modelled by the value it denotes: objects are records,
\* arrays are sequences, and a property whose value is undefined is not
\* written.  Reading an absent property gives undefined.
VERSION == 1

Tools == {"select", "line", "circle", "arc", "erase", "pan"}

HasUndefined(object, key) == key \in DOMAIN object /\ object[key] = Undefined

\* JSON.stringify of a primitive: strokeWidth is the one optional property
StringifyPrimitive(primitive) ==
  IF HasUndefined(primitive, "strokeWidth")
    THEN [key \in DOMAIN primitive \ {"strokeWidth"} |-> primitive[key]]
    ELSE primitive

StringifyPrimitives(primitives) ==
  [i \in 1..Len(primitives) |-> StringifyPrimitive(primitives[i])]

StringifyEntries(entries) ==
  [i \in 1..Len(entries) |->
     [entries[i] EXCEPT !.primitives = StringifyPrimitives(entries[i].primitives)]]

serializeProject(persistedProject, pattern) ==
  [version |-> VERSION,
   project |-> [persistedProject EXCEPT
                  !.primitives = StringifyPrimitives(persistedProject.primitives),
                  !.history = [past |-> StringifyEntries(persistedProject.history.past),
                               future |-> StringifyEntries(persistedProject.history.future)]],
   pattern |-> pattern]

\* normalizeStrokeWidth of projectStorage.ts reads the same constants and
\* computes the same value as the reducer's
StoredStrokeWidth(object) ==
  normalizeStrokeWidth(IF "strokeWidth" \in DOMAIN object THEN object.strokeWidth
                       ELSE Undefined)

isPoint(value) == {"x", "y"} \subseteq DOMAIN value

\* isPrimitive of the version that knows lines and circles only
isPrimitive_NoArc(value) ==
  CASE value.kind = "line" ->
         /\ {"id", "color", "a", "b"} \subseteq DOMAIN value
         /\ isPoint(value.a)
         /\ isPoint(value.b)
    [] value.kind = "circle" ->
         /\ {"id", "color", "center", "radius"} \subseteq DOMAIN value
         /\ isPoint(value.center)
    [] OTHER -> FALSE

isPrimitive(value) ==
  CASE value.kind = "line" ->
         /\ {"id", "color", "a", "b"} \subseteq DOMAIN value
         /\ isPoint(value.a)
         /\ isPoint(value.b)
    [] value.kind = "circle" ->
         /\ {"id", "color", "center", "radius"} \subseteq DOMAIN value
         /\ isPoint(value.center)
    [] value.kind = "arc" ->
         /\ {"id", "color", "center", "start", "end", "clockwise", "largeArc"}
              \subseteq DOMAIN value
         /\ isPoint(value.center)
         /\ isPoint(value.start)
         /\ isPoint(value.end)
    [] OTHER -> FALSE

isTool(value) == value \in Tools

\* a tool is a string; the null that normalizeTool returns for any other
\* value is the string that names no tool
NoTool == ""

normalizeTool(value) ==
  IF value = "split" THEN "select"
  ELSE IF isTool(value) THEN value
  ELSE NoTool

isTileShape(value) == value \in {"square", "hex-pointy"}

isPattern(value) ==
  /\ {"columns", "rows"} \subseteq DOMAIN value
  /\ value.columns > 0
  /\ value.rows > 0

isHistoryEntry(value) ==
  /\ {"description", "primitives"} \subseteq DOMAIN value
  /\ \A i \in 1..Len(value.primitives) : isPrimitive(value.primitives[i])

\* the branch for entries of the current format; a past that is not made
\* of such entries (the legacy arrays of primitives) is not written by
\* serializeProject
normalizeHistory(value) ==
  IF "past" \notin DOMAIN value THEN Null
  ELSE IF \A i \in 1..Len(value.past) : isHistoryEntry(value.past[i])
    THEN [past |-> value.past,
          future |-> IF /\ "future" \in DOMAIN value
                        /\ \A i \in 1..Len(value.future) : isHistoryEntry(value.future[i])
                       THEN value.future ELSE <<>>]
  ELSE Null

normalizeProjectState(value) ==
  IF ~({"tile", "primitives", "activeTool", "activeColor", "history"} \subseteq DOMAIN value)
    THEN Null
  ELSE IF ~({"shape", "size"} \subseteq DOMAIN value.tile) \/ ~isTileShape(value.tile.shape)
    THEN Null
  ELSE IF ~(\A i \in 1..Len(value.primitives) : isPrimitive(value.primitives[i]))
    THEN Null
  ELSE IF normalizeTool(value.activeTool) = NoTool THEN Null
  ELSE IF normalizeHistory(value.history) = Null THEN Null
  ELSE [tile |-> [shape |-> value.tile.shape, size |-> value.tile.size],
        primitives |->
          [i \in 1..Len(value.primitives) |->
             [key \in DOMAIN value.primitives[i] \cup {"strokeWidth"} |->
                IF key = "strokeWidth" THEN StoredStrokeWidth(value.primitives[i])
                ELSE value.primitives[i][key]]],
        activeTool |-> normalizeTool(value.activeTool),
        activeColor |-> value.activeColor,
        activeStrokeWidth |->
          normalizeStrokeWidth(IF "activeStrokeWidth" \in DOMAIN value
                                 THEN value.activeStrokeWidth ELSE Undefined),
        history |-> normalizeHistory(value.history)]

\* parsePersisted after JSON.parse; a thrown Error is the record of its
\* message
deserializeProject(payload) ==
  IF payload.version # VERSION THEN [error |-> "Unsupported project version."]
  ELSE IF normalizeProjectState(payload.project) = Null
    THEN [error |-> "Project state is invalid."]
  ELSE IF ~isPattern(payload.pattern) THEN [error |-> "Pattern dimensions are invalid."]
  ELSE [project |-> normalizeProjectState(payload.project), pattern |-> payload.pattern]

\* Inputs: project states as the reducer leaves them (every stroke width
\* normalized), with each tool, lines, a circle and an arc, and undo and
\* redo entries.
StoredPrimitives ==
  {Line("p1", Pt(0, 0), Pt(10, 0), "#111", FIXED_STROKE_WIDTH),
   Line("p2", Pt(0, 0), Pt(0, 10), "#222", 3 * StrokeDen),
   Circle("p3", Pt(4, 4), 2, "#222", MIN_STROKE_WIDTH),
   Arc("p4", Pt(0, 0), Pt(10, 0), Pt(0, 10), FALSE, "#111", FIXED_STROKE_WIDTH)}

StoredEntries ==
  {HistoryEntry(<<>>, "Add line"),
   HistoryEntry(<<Line("p1", Pt(0, 0), Pt(10, 0), "#111", FIXED_STROKE_WIDTH)>>, "Add circle"),
   HistoryEntry(<<Arc("p4", Pt(0, 0), Pt(10, 0), Pt(0, 10), FALSE, "#111",
                      FIXED_STROKE_WIDTH)>>, "Erase 1 shape")}

StoredProjects ==
  [tile : [shape : TileShapes, size : {DEFAULT_TILE_SIZE}],
   primitives : {<<>>} \cup SeqsUpTo(StoredPrimitives, 2),
   activeTool : Tools,
   activeColor : {"#0f172a"},
   activeStrokeWidth : {FIXED_STROKE_WIDTH, MAX_STROKE_WIDTH},
   history : [past : {<<>>} \cup SeqsUpTo(StoredEntries, 1),
              future : {<<>>} \cup SeqsUpTo(StoredEntries, 1)]]

StoredPatterns == {[columns |-> 2, rows |-> 3], [columns |-> 4, rows |-> 3]}

PersistInit ==
  /\ ReducerInit
  /\ unit = 1
  /\ pc = "input"
  /\ project = NoProject
  /\ cell = NoCell
  /\ frags = <<>>
  /\ deduped = <<>>
  /\ optimized = <<>>
  /\ call \in [name : {"serializeProject"}, project : StoredProjects,
               pattern : StoredPatterns]
  /\ result = <<>>
  /\ AppIdle

SerializeProject ==
  /\ pc = "input"
  /\ call.name = "serializeProject"
  /\ pc' = "serialized"
  /\ result' = serializeProject(call.project, call.pattern)
  /\ UNCHANGED <<unit, project, cell, frags, deduped, optimized, call, app>>
  /\ UNCHANGED rvars

DeserializeProject ==
  /\ pc = "serialized"
  /\ pc' = "done"
  /\ result' = deserializeProject(result)
  /\ UNCHANGED <<unit, project, cell, frags, deduped, optimized, call, app>>
  /\ UNCHANGED rvars

PersistNext == SerializeProject \/ DeserializeProject

PersistSpec == PersistInit /\ [][PersistNext]_vars

----------------------------------------------------------------------------
(* features/export/exportSvg.ts: history replay                              *)

Reverse(seq) == [i \in 1..Len(seq) |-> seq[Len(seq) + 1 - i]]

Snapshots(entries) == [i \in 1..Len(entries) |-> entries[i].primitives]

\* buildHistoryReplayFrames that replays history.future as it is stored
buildHistoryReplayFrames_FutureAsStored(replayed, includeFuture) ==
  LET base == Snapshots(replayed.history.past) \o <<replayed.primitives>>
      withFuture == IF includeFuture
                      THEN base \o Snapshots(replayed.history.future)
                      ELSE base
  IN  IF Len(replayed.history.past) = 0 /\ Len(replayed.primitives) > 0
        THEN <<<<>>>> \o withFuture
        ELSE withFuture

\* frames.length === 0 cannot hold after the current primitives were
\* pushed, so the last branch of the source adds nothing
buildHistoryReplayFrames(replayed, includeFuture) ==
  LET base == Snapshots(replayed.history.past) \o <<replayed.primitives>>
      withFuture == IF includeFuture
                      THEN base \o Snapshots(Reverse(replayed.history.future))
                      ELSE base
  IN  IF Len(replayed.history.past) = 0 /\ Len(replayed.primitives) > 0
        THEN <<<<>>>> \o withFuture
        ELSE withFuture

\* Inputs: projects as the reducer builds them and as a project file can
\* hold them (a file may carry primitives with an empty history).
ReplaySnapshots ==
  {<<>>,
   <<Line("p1", Pt(0, 0), Pt(10, 0), "#111", FIXED_STROKE_WIDTH)>>,
   <<Line("p1", Pt(0, 0), Pt(10, 0), "#111", FIXED_STROKE_WIDTH),
     Line("p2", Pt(0, 0), Pt(0, 10), "#222", FIXED_STROKE_WIDTH)>>,
   <<Line("p2", Pt(0, 0), Pt(0, 10), "#222", FIXED_STROKE_WIDTH)>>}

ReplayEntries == {HistoryEntry(snapshot, "Add line") : snapshot \in ReplaySnapshots}

MaxReplayHistory == 2

ReplayProjects ==
  [tile : {initialProjectState.tile},
   primitives : ReplaySnapshots,
   history : [past : {<<>>} \cup SeqsUpTo(ReplayEntries, MaxReplayHistory),
              future : {<<>>} \cup SeqsUpTo(ReplayEntries, MaxReplayHistory)]]

ReplayInit ==
  /\ ReducerInit
  /\ unit = 1
  /\ pc = "input"
  /\ project = NoProject
  /\ cell = NoCell
  /\ frags = <<>>
  /\ deduped = <<>>
  /\ optimized = <<>>
  /\ call \in [name : {"buildHistoryReplayFrames"}, project : ReplayProjects,
               includeFuture : BOOLEAN]
  /\ result = <<>>
  /\ AppIdle

BuildHistoryReplayFrames ==
  /\ pc = "input"
  /\ call.name = "buildHistoryReplayFrames"
  /\ pc' = "done"
  /\ result' = buildHistoryReplayFrames(call.project, call.includeFuture)
  /\ UNCHANGED <<unit, project, cell, frags, deduped, optimized, call, app>>
  /\ UNCHANGED rvars

ReplayNext == BuildHistoryReplayFrames

ReplaySpec == ReplayInit /\ [][ReplayNext]_vars

\* the primitives that successive undos restore, oldest first
RECURSIVE UndoTrail(_)
UndoTrail(st) ==
  IF Len(st.history.past) = 0 THEN <<>>
  ELSE UndoTrail(undo(st)) \o <<undo(st).primitives>>

\* the primitives that successive redos restore, next redo first
RECURSIVE RedoTrail(_)
RedoTrail(st) ==
  IF Len(st.history.future) = 0 THEN <<>>
  ELSE <<redo(st).primitives>> \o RedoTrail(redo(st))

\* C25: the replay frames are the snapshots that undo would restore,
\* oldest first, then the current primitives, then the snapshots that
\* successive redos would restore, the next redo's first; one empty frame
\* comes before them when past is empty and there are primitives, and there
\* is always at least one frame.
C25_ChronologicalFrames ==
  (pc = "done" /\ call.name = "buildHistoryReplayFrames" /\ call.includeFuture) =>
    /\ Len(result) >= 1
    /\ result =
         (IF Len(call.project.history.past) = 0 /\ Len(call.project.primitives) > 0
            THEN <<<<>>>> ELSE <<>>)
         \o UndoTrail(call.project)
         \o <<call.project.primitives>>
         \o RedoTrail(call.project)

C25_Witness ==
  /\ pc = "done"
  /\ call.name = "buildHistoryReplayFrames"
  /\ call.includeFuture
  /\ Len(call.project.history.past) = 2
  /\ Len(call.project.history.future) = 2
  /\ call.project.history.future[1].primitives # call.project.history.future[2].primitives
  /\ Len(result) = 5
  /\ result[4] = call.project.history.future[2].primitives
  /\ result[5] = call.project.history.future[1].primitives

----------------------------------------------------------------------------
(* app/App.tsx: animated-GIF export                                          *)

\* app.isExportingGif and app.message are the values of the two useState
\* cells after the updates queued so far.  app.rendered is what the last
\* committed render read from them: the handlers of that render close over
\* app.rendered.isExportingGif, and the button's disabled attribute is that
\* same value.  app.running counts the buildAnimatedGif promises not yet
\* settled.

\* bound on the number of buildAnimatedGif runs started in one behaviour
MaxExports == 4

GifErrors == {"GIF export failed."}

\* exportAnimatedGif up to its await: the guard, the two state updates and
\* the call of buildAnimatedGif
exportAnimatedGif(component) ==
  IF component.rendered.isExportingGif
    THEN component
    ELSE [component EXCEPT !.isExportingGif = TRUE,
                           !.message = "Exporting animated GIF...",
                           !.running = @ + 1,
                           !.started = @ + 1]

\* exportAnimatedGif after the await when the promise was fulfilled
exportFulfilled(component) ==
  [component EXCEPT !.downloads = @ + 1,
                    !.message = "Exported animated GIF.",
                    !.isExportingGif = FALSE,
                    !.running = @ - 1]

\* exportAnimatedGif after the await when the promise was rejected
exportRejected(component, errorMessage) ==
  [component EXCEPT !.message = errorMessage,
                    !.isExportingGif = FALSE,
                    !.running = @ - 1]

ExportButtonDisabled == app.rendered.isExportingGif

RenderPending ==
  app.rendered # [isExportingGif |-> app.isExportingGif, message |-> app.message]

\* a click on the button as last rendered; a disabled button delivers none
ClickExportGif ==
  /\ ~ExportButtonDisabled
  /\ app.started < MaxExports
  /\ app' = exportAnimatedGif(app)
  /\ UNCHANGED rvars
  /\ UNCHANGED evars
  /\ UNCHANGED gvars

\* React commits a render with the queued state updates
Render ==
  /\ RenderPending
  /\ app' = [app EXCEPT !.rendered = [isExportingGif |-> app.isExportingGif,
                                      message |-> app.message]]
  /\ UNCHANGED rvars
  /\ UNCHANGED evars
  /\ UNCHANGED gvars

GifExportSucceeds ==
  /\ app.running > 0
  /\ app' = exportFulfilled(app)
  /\ UNCHANGED rvars
  /\ UNCHANGED evars
  /\ UNCHANGED gvars

GifExportFails ==
  /\ app.running > 0
  /\ \E errorMessage \in GifErrors : app' = exportRejected(app, errorMessage)
  /\ UNCHANGED rvars
  /\ UNCHANGED evars
  /\ UNCHANGED gvars

GifNext == ClickExportGif \/ Render \/ GifExportSucceeds \/ GifExportFails

GifSpec == Init /\ [][GifNext]_vars

\* React commits every queued update, and a pending buildAnimatedGif
\* promise is fulfilled or rejected
GifFairSpec ==
  /\ GifSpec
  /\ WF_vars(Render)
  /\ WF_vars(GifExportSucceeds \/ GifExportFails)

\* C30: at most one buildAnimatedGif run is in flight at any time.
C30_OneExportInFlight == app.running <= 1

\* C26: while an export is in progress the rendered button is disabled
\* (once React has rendered the latest state).
C26_DisabledWhileExporting ==
  (app.running > 0 /\ ~RenderPending) => ExportButtonDisabled

\* the second half of C26: whenever the exporting flag is set, it is
\* later cleared and the button rendered enabled
ExportingEnds ==
  app.isExportingGif ~> (~app.isExportingGif /\ ~ExportButtonDisabled)

\* with a single export under way the button is disabled once rendered
DisabledWhileOnlyExport ==
  (app.running = 1 /\ app.started = 1 /\ ~RenderPending) => ExportButtonDisabled

----------------------------------------------------------------------------
(* Path joining: coverage (checked under JoinSpec)                          *)

\* the two end points of a graph edge, as the points of its node keys
EdgeEnds(edge) == {pointFromQuantizedKey(edge.a), pointFromQuantizedKey(edge.b)}

\* the steps of the paths: <<p, i>> is the step from points[i] to
\* points[i + 1] of path p
PathSteps(paths) ==
  UNION {{<<p, i>> : i \in 1..(Len(paths[p].points) - 1)} : p \in 1..Len(paths)}

StepEnds(paths, step) ==
  {paths[step[1]].points[step[2]], paths[step[1]].points[step[2] + 1]}

\* every edge is a step of the paths exactly as often as it occurs among
\* the edges, and every step is an edge
ExactCover(edges, paths) ==
  /\ \A step \in PathSteps(paths) :
       \E i \in 1..Len(edges) : EdgeEnds(edges[i]) = StepEnds(paths, step)
  /\ \A i \in 1..Len(edges) :
       Cardinality({step \in PathSteps(paths) : StepEnds(paths, step) = EdgeEnds(edges[i])})
         = Cardinality({j \in 1..Len(edges) : EdgeEnds(edges[j]) = EdgeEnds(edges[i])})

\* C27: the joiner ends, and for the fragments of each style every graph
\* edge (fragment with distinct quantized end points) is one step of exactly
\* one emitted path, and every step of an emitted path joins the quantized
\* end points of such a fragment; this holds for the deduplicated fragments
\* that buildTiledSvg joins and for any list of fragments given to
\* buildJoinedLinePaths.
C27_JoinCoversEachEdgeOnce ==
  pc = "done" =>
    /\ \A style \in Styles : ExactCover(EdgesOfStyle(style), PathsOfStyle(style))
    /\ \A key \in Range(BucketOrder(frags)) :
         ExactCover(GraphEdges(Bucket(frags, key)),
                    buildJoinedLinePaths(Bucket(frags, key)))

C27_Witness ==
  /\ pc = "done"
  /\ \E style \in Styles :
       /\ Len(EdgesOfStyle(style)) = 4
       /\ ~Acyclic(EdgesOfStyle(style))
       /\ Len(PathsOfStyle(style)) = 2
       /\ ExactCover(EdgesOfStyle(style), PathsOfStyle(style))

----------------------------------------------------------------------------
(* Tile shape and no-op actions (checked under Spec)                        *)

\* C28: an undo that directly follows a change of the tile shape brings
\* back the shape the tile had before the change (of the two tile shapes,
\* the one that is not the current one).
C28_UndoRestoresTileShape ==
  [][ (lastAction = "set-tile-shape" /\ wasChanged /\ lastAction' = "undo")
        => state'.tile.shape \in TileShapes \ {state.tile.shape} ]_vars

\* C29: a recording action that leaves the primitive collection as it was
\* returns the state it was given, and every undo that changes the state
\* changes the primitives.
C29_UnchangedRecordsNothing ==
  [][ /\ (lastAction' \in Recording /\ state'.primitives = state.primitives)
           => state' = state
      /\ (lastAction' = "undo" /\ state' # state)
           => state'.primitives # state.primitives ]_vars

\* the part of C29 about lines and circles: leaving aside changes of the
\* tile shape, only an update of an arc records a step that changes nothing
UnchangedLinesAndCirclesRecordNothing ==
  [][ (/\ lastAction' \in Recording \ {"set-tile-shape"}
       /\ state'.primitives = state.primitives
       /\ state' # state)
        => /\ lastAction' \in {"update-primitive", "update-primitives"}
           /\ \E i \in 1..Len(state.primitives) : state.primitives[i].kind = "arc" ]_vars

\* an update of an arc to the values it already has was recorded
ArcUpdateRecorded ==
  /\ lastAction = "update-primitive"
  /\ wasChanged
  /\ Len(state.history.past) >= 1
  /\ state.history.past[Len(state.history.past)].primitives = state.primitives
  /\ state.history.past[Len(state.history.past)].description = "Edit 1 shape"

====
